---- MODULE Spec2Model ----
(***************************************************************************)
(* Model of the LightyUpdater cache-coherence engine: the per-profile      *)
(* scanner, the diff engine and URL index, the rescan orchestrator         *)
(* (interval loop and debounced file-watcher loop, pause/resume) and the   *)
(* config hot-reload controller.                                           *)
(*                                                                         *)
(* Conventions.  A string that is a '/'-separated path (a relative path, a *)
(* remote key, a URL, a value of the URL index) is a sequence of its       *)
(* segments; a file name is stem "." ext.  Option<T> is a sequence of      *)
(* length 0 (None) or 1 (Some).  The Option<String> fields of Library,     *)
(* Mod and Asset are always Some in a scanned manifest and are modelled    *)
(* by their value; the empty string and None are both <<>>.  File sizes    *)
(* are left out: no modelled operation reads them.                         *)
(***************************************************************************)
EXTENDS Integers, Sequences, FiniteSets, TLC

\* ------------------------------------------------------------------ bounds
MaxSha == 2            \* distinct file contents (content hashes 1..MaxSha)
MaxFsChanges == 2      \* changes the operator makes to profile files
MaxConfigEdits == 1    \* edits the operator makes to the config file
DebounceTicks == 2     \* hot_reload.files.debounce_ms, in clock ticks

\* ------------------------------------------------------------- generic helpers
None == <<>>
Some(x) == <<x>>
IsSome(o) == Len(o) = 1

RECURSIVE Perms(_)
Perms(S) ==
  IF S = {} THEN {<<>>}
  ELSE UNION {{<<x>> \o s : s \in Perms(S \ {x})} : x \in S}

Range(s) == {s[i] : i \in 1..Len(s)}

\* HashMap::insert / HashMap::remove on a map held as a TLA+ function
MapInsert(m, k, v) == [x \in (DOMAIN m) \cup {k} |-> IF x = k THEN v ELSE m[x]]
MapRemove(m, k) == [x \in (DOMAIN m) \ {k} |-> m[x]]
EmptyMap == [x \in {} |-> <<>>]

\* iter().map(|e| (key(e), e)).collect::<HashMap>(): a later element of the
\* Vec replaces an earlier one with the same key
RECURSIVE CollectByKey(_, _, _)
CollectByKey(vec, keyField, acc) ==
  IF vec = <<>> THEN acc
  ELSE CollectByKey(Tail(vec), keyField, MapInsert(acc, Head(vec)[keyField], Head(vec)))

\* an arbitrary but fixed enumeration of a set (HashMap iteration order)
RECURSIVE IterOrder(_)
IterOrder(S) ==
  IF S = {} THEN <<>>
  ELSE LET x == CHOOSE y \in S : TRUE IN <<x>> \o IterOrder(S \ {x})

\* ------------------------------------------------------------------ disk
\* A file on disk below one profile directory: kind is the sub-tree, dirs the
\* directories between the sub-tree and the file, sha its content hash.
FileName(f) == f.stem \o "." \o f.ext
RelPath(f) == f.dirs \o <<FileName(f)>>

DiskFile(kind, dirs, stem, ext) == [kind |-> kind, dirs |-> dirs, stem |-> stem, ext |-> ext]

AllPaths ==
  { DiskFile("client", <<>>, "game", "jar"),
    DiskFile("libraries", <<"g", "a", "1">>, "a", "jar"),
    DiskFile("mods", <<>>, "foo", "jar"),
    DiskFile("natives", <<"linux">>, "x", "so"),
    DiskFile("assets", <<>>, "foo", "jar") }

WithSha(f, sha) ==
  [kind |-> f.kind, dirs |-> f.dirs, stem |-> f.stem, ext |-> f.ext, sha |-> sha,
   readable |-> TRUE]

\* a file that cannot be hashed: compute_sha1_with_size returns Err for it
\* (unreadable, vanished after the directory walk, I/O error)
Unreadable(f) == [f EXCEPT !.readable = FALSE]

\* every content of a directory tree over the paths `paths`
DiskStates(paths) ==
  { {WithSha(f, c[f]) : f \in {g \in paths : c[g] # 0}} : c \in [paths -> 0..MaxSha] }

\* ------------------------------------------------------------------ storage
BaseUrl == "http://h/u"
GetUrl(remote_key) == <<BaseUrl>> \o remote_key

\* ------------------------------------------------------------------ scanner
IsJar(f) == f.ext = "jar"

\* what JarScanner::scan and scan_files_parallel compute for one file below
\* base_dir; `relative` is the path with base_dir stripped
FileInfo(server, f, relative) ==
  [ file_name |-> FileName(f),
    url       |-> GetUrl(<<server>> \o relative),
    url_path  |-> relative,
    sha1      |-> f.sha ]

Library(info) == [url |-> info.url, path |-> info.url_path, sha1 |-> info.sha1]
Mod(info) == [name |-> info.file_name, url |-> info.url, path |-> info.url_path, sha1 |-> info.sha1]
Native(info, os) ==
  [ name |-> "natives:" \o os \o ":" \o info.file_name,
    url |-> info.url, path |-> info.url_path, sha1 |-> info.sha1, os |-> os ]
Asset(info) == [hash |-> info.sha1, url |-> info.url, path |-> info.url_path]
Client(server, f) ==
  [ name |-> "client", url |-> GetUrl(<<server, FileName(f)>>),
    path |-> <<FileName(f)>>, sha1 |-> f.sha ]

\* results.into_iter().filter_map(|r| r.ok()): a file whose task returned Err
\* is left out
Hashed(files) == {g \in files : g.readable}

\* the Vecs a scan can return: the files are processed unordered
scan_libraries(server, files) ==
  Perms({Library(FileInfo(server, f, RelPath(f))) :
           f \in Hashed({g \in files : g.kind = "libraries" /\ IsJar(g)})})

scan_mods(server, files) ==
  Perms({Mod(FileInfo(server, f, RelPath(f))) :
           f \in Hashed({g \in files : g.kind = "mods" /\ IsJar(g)})})

NATIVE_OS_TYPES == <<"windows", "linux", "macos">>

scan_natives_os(server, files, os) ==
  Perms({Native(FileInfo(server, f, Tail(RelPath(f))), os) :
           f \in Hashed({g \in files : g.kind = "natives" /\ g.dirs # <<>> /\ g.dirs[1] = os})})

scan_natives(server, files) ==
  { a \o b \o c : a \in scan_natives_os(server, files, NATIVE_OS_TYPES[1]),
                  b \in scan_natives_os(server, files, NATIVE_OS_TYPES[2]),
                  c \in scan_natives_os(server, files, NATIVE_OS_TYPES[3]) }

scan_assets(server, files) ==
  Perms({Asset(FileInfo(server, f, RelPath(f))) : f \in Hashed({g \in files : g.kind = "assets"})})

\* Result<VersionBuilder, ScanError> and Result<Option<Client>, ScanError>
ScanErr == [ok |-> FALSE]
ScanOk(builder) == [ok |-> TRUE, builder |-> builder]
ClientOk(client) == [ok |-> TRUE, client |-> client]

\* the first .jar read_dir yields in client/ (any of them) is hashed: Err when
\* the hashing fails, Ok(None) when there is no jar
scan_client(server, files) ==
  LET jars == {g \in files : g.kind = "client" /\ g.dirs = <<>> /\ IsJar(g)}
  IN  IF jars = {} THEN {ClientOk(None)}
      ELSE {IF f.readable THEN ClientOk(Some(Client(server, f))) ELSE ScanErr : f \in jars}

\* ------------------------------------------------------------------ manifest
RECURSIVE InsertAll(_, _, _)
InsertAll(map, vec, prefix) ==
  IF vec = <<>> THEN map
  ELSE InsertAll(MapInsert(map, Head(vec).url, <<prefix>> \o Head(vec).path), Tail(vec), prefix)

build_url_map(b) ==
  LET m1 == IF IsSome(b.client)
            THEN MapInsert(EmptyMap, b.client[1].url, <<"client">> \o b.client[1].path)
            ELSE EmptyMap
      m2 == InsertAll(m1, b.libraries, "libraries")
      m3 == InsertAll(m2, b.mods, "mods")
      m4 == IF IsSome(b.natives) THEN InsertAll(m3, b.natives[1], "natives") ELSE m3
      m5 == InsertAll(m4, b.assets, "assets")
  IN  [b EXCEPT !.url_to_path_map = m5]

add_url_mapping(b, url, path) == [b EXCEPT !.url_to_path_map = MapInsert(@, url, path)]
remove_url_mapping(b, url) == [b EXCEPT !.url_to_path_map = MapRemove(@, url)]

VersionBuilder(config, libraries, mods, natives, client, assets) ==
  [ main_class |-> config.main_class,
    java_version |-> config.java_version,
    game |-> config.game_args,
    jvm |-> config.jvm_args,
    libraries |-> libraries,
    mods |-> mods,
    natives |-> natives,
    client |-> client,
    assets |-> assets,
    url_to_path_map |-> EmptyMap ]

\* ServerScanner::build_version_metadata: every result the scan of `files`
\* can return (entry order and the choice of the client jar are free); the
\* `?` on client_result makes the whole scan fail when scan_client fails
build_version_metadata(config, files) ==
  { IF c.ok THEN ScanOk(build_url_map(VersionBuilder(config, l, m, n, c.client, a)))
    ELSE ScanErr :
      l \in (IF config.enable_libraries THEN scan_libraries(config.name, files) ELSE {<<>>}),
      m \in (IF config.enable_mods THEN scan_mods(config.name, files) ELSE {<<>>}),
      n \in (IF config.enable_natives
               THEN {Some(v) : v \in scan_natives(config.name, files)} ELSE {None}),
      c \in (IF config.enable_client THEN scan_client(config.name, files)
               ELSE {ClientOk(None)}),
      a \in (IF config.enable_assets THEN scan_assets(config.name, files) ELSE {<<>>}) }

\* the manifests a scan of `files` can succeed with
Builders(config, files) == {r.builder : r \in {x \in build_version_metadata(config, files) : x.ok}}

\* the manifest force-rescan and the initial scan commit when the scan fails
EmptyBuilder(config) ==
  build_url_map(VersionBuilder(config, <<>>, <<>>, None, None, <<>>))

\* ------------------------------------------------------------------ diff engine
FileChange(file_type, remote_key, local_path, url) ==
  [file_type |-> file_type, remote_key |-> remote_key, local_path |-> local_path, url |-> url]

NoChanges == [added |-> <<>>, modified |-> <<>>, removed |-> <<>>]

\* a diff that reports every key of both maps as modified
ModifiedKeysAnyHash(old_map, new_map, hash) ==
  IterOrder({k \in DOMAIN new_map : k \in DOMAIN old_map})

\* the two loops every keyed diff runs over old_map and new_map: the keys
\* only new_map has, the keys of both whose `hash` field differs, the keys
\* only old_map has
AddedKeys(old_map, new_map) ==
  IterOrder({k \in DOMAIN new_map : k \notin DOMAIN old_map})

ModifiedKeys(old_map, new_map, hash) ==
  IterOrder({k \in DOMAIN new_map : k \in DOMAIN old_map /\ old_map[k][hash] # new_map[k][hash]})

RemovedKeys(old_map, new_map) ==
  IterOrder({k \in DOMAIN old_map : k \notin DOMAIN new_map})

ClientChange(server, client) ==
  FileChange("Client", <<server, "client.jar">>, <<server, "client", "client.jar">>, client.url)

diff_client(server, old, new) ==
  CASE ~IsSome(old.client) /\ IsSome(new.client) ->
         [NoChanges EXCEPT !.added = <<ClientChange(server, new.client[1])>>]
    [] IsSome(old.client) /\ ~IsSome(new.client) ->
         [NoChanges EXCEPT !.removed = <<ClientChange(server, old.client[1])>>]
    [] IsSome(old.client) /\ IsSome(new.client) ->
         IF old.client[1].sha1 # new.client[1].sha1
         THEN [NoChanges EXCEPT !.modified = <<ClientChange(server, new.client[1])>>]
         ELSE NoChanges
    [] OTHER -> NoChanges

LibraryChange(server, path, lib) ==
  FileChange("Library", <<server, "libraries">> \o path, <<server, "libraries">> \o path, lib.url)

diff_libraries(server, old, new) ==
  LET old_map == CollectByKey(old.libraries, "path", EmptyMap)
      new_map == CollectByKey(new.libraries, "path", EmptyMap)
      ka == AddedKeys(old_map, new_map)
      km == ModifiedKeys(old_map, new_map, "sha1")
      kr == RemovedKeys(old_map, new_map)
  IN  [ added    |-> [i \in 1..Len(ka) |-> LibraryChange(server, ka[i], new_map[ka[i]])],
        modified |-> [i \in 1..Len(km) |-> LibraryChange(server, km[i], new_map[km[i]])],
        removed  |-> [i \in 1..Len(kr) |-> LibraryChange(server, kr[i], old_map[kr[i]])] ]

ModChange(server, name, m) ==
  FileChange("Mod", <<server, "mods", name>>, <<server, "mods", name>>, m.url)

diff_mods(server, old, new) ==
  LET old_map == CollectByKey(old.mods, "name", EmptyMap)
      new_map == CollectByKey(new.mods, "name", EmptyMap)
      ka == AddedKeys(old_map, new_map)
      km == ModifiedKeys(old_map, new_map, "sha1")
      kr == RemovedKeys(old_map, new_map)
  IN  [ added    |-> [i \in 1..Len(ka) |-> ModChange(server, ka[i], new_map[ka[i]])],
        modified |-> [i \in 1..Len(km) |-> ModChange(server, km[i], new_map[km[i]])],
        removed  |-> [i \in 1..Len(kr) |-> ModChange(server, kr[i], old_map[kr[i]])] ]

NativeChange(server, name, native) ==
  FileChange("Native", <<server, "natives", name>>, <<server, "natives", name>>, native.url)

\* diff_natives when both manifests have a natives list
diff_natives_both(server, old_natives, new_natives) ==
  LET old_map == CollectByKey(old_natives, "name", EmptyMap)
      new_map == CollectByKey(new_natives, "name", EmptyMap)
      ka == AddedKeys(old_map, new_map)
      km == ModifiedKeys(old_map, new_map, "sha1")
      kr == RemovedKeys(old_map, new_map)
  IN  [ added    |-> [i \in 1..Len(ka) |-> NativeChange(server, ka[i], new_map[ka[i]])],
        modified |-> [i \in 1..Len(km) |-> NativeChange(server, km[i], new_map[km[i]])],
        removed  |-> [i \in 1..Len(kr) |-> NativeChange(server, kr[i], old_map[kr[i]])] ]

AllNatives(server, vec) == [i \in 1..Len(vec) |-> NativeChange(server, vec[i].name, vec[i])]

diff_natives(server, old, new) ==
  CASE ~IsSome(old.natives) /\ IsSome(new.natives) ->
         [NoChanges EXCEPT !.added = AllNatives(server, new.natives[1])]
    [] IsSome(old.natives) /\ ~IsSome(new.natives) ->
         [NoChanges EXCEPT !.removed = AllNatives(server, old.natives[1])]
    [] IsSome(old.natives) /\ IsSome(new.natives) ->
         diff_natives_both(server, old.natives[1], new.natives[1])
    [] OTHER -> NoChanges

AssetChange(server, path, asset) ==
  FileChange("Asset", <<server, "assets">> \o path, <<server, "assets">> \o path, asset.url)

diff_assets(server, old, new) ==
  LET old_map == CollectByKey(old.assets, "path", EmptyMap)
      new_map == CollectByKey(new.assets, "path", EmptyMap)
      ka == AddedKeys(old_map, new_map)
      km == ModifiedKeys(old_map, new_map, "hash")
      kr == RemovedKeys(old_map, new_map)
  IN  [ added    |-> [i \in 1..Len(ka) |-> AssetChange(server, ka[i], new_map[ka[i]])],
        modified |-> [i \in 1..Len(km) |-> AssetChange(server, km[i], new_map[km[i]])],
        removed  |-> [i \in 1..Len(kr) |-> AssetChange(server, kr[i], old_map[kr[i]])] ]

add_all_files(server, new) ==
  (IF IsSome(new.client) THEN <<ClientChange(server, new.client[1])>> ELSE <<>>)
  \o [i \in 1..Len(new.libraries) |-> LibraryChange(server, new.libraries[i].path, new.libraries[i])]
  \o [i \in 1..Len(new.mods) |-> ModChange(server, new.mods[i].name, new.mods[i])]
  \o (IF IsSome(new.natives)
      THEN [i \in 1..Len(new.natives[1]) |->
              NativeChange(server, new.natives[1][i].name, new.natives[1][i])]
      ELSE <<>>)
  \o [i \in 1..Len(new.assets) |-> AssetChange(server, new.assets[i].path, new.assets[i])]

\* FileDiff::compute; old is an Option
compute(server, old, new) ==
  IF IsSome(old)
  THEN LET c == diff_client(server, old[1], new)
           l == diff_libraries(server, old[1], new)
           m == diff_mods(server, old[1], new)
           n == diff_natives(server, old[1], new)
           a == diff_assets(server, old[1], new)
       IN  [ added    |-> c.added \o l.added \o m.added \o n.added \o a.added,
             modified |-> c.modified \o l.modified \o m.modified \o n.modified \o a.modified,
             removed  |-> c.removed \o l.removed \o m.removed \o n.removed \o a.removed ]
  ELSE [NoChanges EXCEPT !.added = add_all_files(server, new)]

\* local_path is "server_name/subfolder/file": everything after the first '/'
extract_relative_path(local_path) ==
  IF Len(local_path) > 1 THEN Tail(local_path) ELSE local_path

RECURSIVE AddMappings(_, _)
AddMappings(builder, changes) ==
  IF changes = <<>> THEN builder
  ELSE AddMappings(
         IF Head(changes).url # <<>>
         THEN add_url_mapping(builder, Head(changes).url,
                              extract_relative_path(Head(changes).local_path))
         ELSE builder,
         Tail(changes))

RECURSIVE RemoveMappings(_, _)
RemoveMappings(builder, changes) ==
  IF changes = <<>> THEN builder
  ELSE RemoveMappings(
         IF Head(changes).url # <<>> THEN remove_url_mapping(builder, Head(changes).url)
         ELSE builder,
         Tail(changes))

apply_to_url_map(diff, builder) ==
  RemoveMappings(AddMappings(builder, diff.added \o diff.modified), diff.removed)

has_changes(diff) == diff.added # <<>> \/ diff.modified # <<>> \/ diff.removed # <<>>

\* ------------------------------------------------------------------ config
ServerConfig(name, enabled, main_class) ==
  [ name |-> name, enabled |-> enabled,
    loader |-> "fabric", loader_version |-> "0.15", minecraft_version |-> "1.20",
    main_class |-> main_class, java_version |-> 17,
    enable_client |-> TRUE, enable_libraries |-> TRUE, enable_mods |-> TRUE,
    enable_natives |-> TRUE, enable_assets |-> TRUE,
    game_args |-> <<>>, jvm_args |-> <<>> ]

\* the profile the pure diff checks run on
DiffConfig == ServerConfig("alpha", TRUE, "net.Main")

\* Config.servers values the config file can hold.  Profile names are unique
\* in every list (the name is the profile's identity).
AlphaOn == ServerConfig("alpha", TRUE, "net.Main")
AlphaOn2 == ServerConfig("alpha", TRUE, "net.Main2")
BetaOn == ServerConfig("beta", TRUE, "net.Main")
BetaOff == ServerConfig("beta", FALSE, "net.Main")

ServerLists ==
  { <<AlphaOn>>, <<AlphaOn, BetaOn>>, <<AlphaOn, BetaOff>>, <<AlphaOn2, BetaOff>>, <<BetaOn>> }

StartupServerLists == { <<AlphaOn>>, <<AlphaOn, BetaOff>> }

\* paths that exist below a profile directory in the running system
SysPaths ==
  { DiskFile("natives", <<"linux">>, "x", "so") }

BasePath == "updater"
ServerPath(base_path, name) == <<base_path, name>>

\* servers.iter().find(|s| s.name == name)
RECURSIVE FindServer(_, _)
FindServer(servers, name) ==
  IF servers = <<>> THEN None
  ELSE IF Head(servers).name = name THEN Some(Head(servers))
  ELSE FindServer(Tail(servers), name)

\* servers.iter().filter(|s| s.enabled)
RECURSIVE EnabledServers(_)
EnabledServers(servers) ==
  IF servers = <<>> THEN <<>>
  ELSE (IF Head(servers).enabled THEN <<Head(servers)>> ELSE <<>>) \o EnabledServers(Tail(servers))

Names(servers) == {servers[i].name : i \in 1..Len(servers)}

\* ------------------------------------------------------------------ manifest endpoint
\* CacheManager::get_all_servers and CacheManager::get_server_config
get_all_servers(servers) == Names(EnabledServers(servers))
get_server_config(servers, name) == FindServer(servers, name)

ServerNotFound(server, available) ==
  [status |-> 404, code |-> "SERVER_NOT_FOUND", server |-> server, available |-> available]

\* The path parameter of GET /{name}.json is the sequence of the parts its
\* dots separate.  strip_suffix(".json").unwrap_or(whole)
strip_json(parts) ==
  IF Len(parts) >= 2 /\ parts[Len(parts)] = "json" THEN SubSeq(parts, 1, Len(parts) - 1)
  ELSE parts

\* CacheStore::get with the name the parts spell: only a name without dots
\* can be a key of the Manifest Store
cache_get(cache, server_name) ==
  IF Len(server_name) = 1 /\ server_name[1] \in DOMAIN cache THEN cache[server_name[1]]
  ELSE None

\* get_server_metadata, run on the configuration `servers` and the Manifest
\* Store `cache`
get_server_metadata(servers, cache, server_name_with_ext) ==
  LET server_name == strip_json(server_name_with_ext)
      server_config == IF Len(server_name) = 1 THEN get_server_config(servers, server_name[1])
                       ELSE None
  IN  IF server_config # None /\ ~server_config[1].enabled
      THEN ServerNotFound(server_name, get_all_servers(servers))
      ELSE IF cache_get(cache, server_name) # None
           THEN [status |-> 200, body |-> cache_get(cache, server_name)[1]]
           ELSE ServerNotFound(server_name, get_all_servers(servers))

\* ------------------------------------------------------------------ file endpoint
\* The text of a URI path, a URL or a cache key is the sequence of its
\* tokens: the characters the handlers test, single letters, and words of
\* two or more letters that hold none of those characters.
Slash == "/"
Backslash == "\\"
Dot == "."
Colon == ":"
Nul == "NUL"
Letters == {"C", "x", "a", "g", "1"}
IsChar(t) == t \in {Slash, Backslash, Dot, Colon, Nul} \cup Letters

\* the text of one path segment or name of the model
Text(s) ==
  IF \E f \in AllPaths : FileName(f) = s
  THEN LET f == CHOOSE g \in AllPaths : FileName(g) = s IN <<f.stem, Dot, f.ext>>
  ELSE <<s>>

\* the segments joined with '/'
RECURSIVE JoinText(_)
JoinText(segs) ==
  IF segs = <<>> THEN <<>>
  ELSE IF Len(segs) = 1 THEN Text(segs[1])
  ELSE Text(Head(segs)) \o <<Slash>> \o JoinText(Tail(segs))

\* str::trim_start_matches('/')
RECURSIVE trim_start_slashes(_)
trim_start_slashes(text) ==
  IF text # <<>> /\ Head(text) = Slash THEN trim_start_slashes(Tail(text)) ELSE text

\* str::splitn(2, '/')
splitn2(text) ==
  LET at == {i \in 1..Len(text) : text[i] = Slash}
  IN  IF at = {} THEN <<text>>
      ELSE LET i == CHOOSE j \in at : \A k \in at : j <= k
           IN  <<SubSeq(text, 1, i - 1), SubSeq(text, i + 1, Len(text))>>

contains_dotdot(text) == \E i \in 1..(Len(text) - 1) : text[i] = Dot /\ text[i + 1] = Dot
contains_nul(text) == \E i \in 1..Len(text) : text[i] = Nul
starts_with_char(text, c) == text # <<>> /\ text[1] = c
\* component.len() >= 2
len_ge_2(text) == Len(text) >= 2 \/ (Len(text) = 1 /\ ~IsChar(text[1]))
\* component.chars().nth(1) == Some(':')
second_char_is_colon(text) == Len(text) >= 2 /\ IsChar(text[1]) /\ text[2] = Colon

InvalidPath == [status |-> 400, code |-> "INVALID_PATH"]
NotFound == [status |-> 404, code |-> "NOT_FOUND"]

\* validate_path_component without the drive-letter test
validate_path_component_no_drive(component) ==
  IF contains_dotdot(component) THEN Some(InvalidPath)
  ELSE IF contains_nul(component) THEN Some(InvalidPath)
  ELSE IF starts_with_char(component, Slash) \/ starts_with_char(component, Backslash)
       THEN Some(InvalidPath)
  ELSE None

\* validate_path_component: the error it returns, if any
validate_path_component(component) ==
  IF contains_dotdot(component) THEN Some(InvalidPath)
  ELSE IF contains_nul(component) THEN Some(InvalidPath)
  ELSE IF starts_with_char(component, Slash) \/ starts_with_char(component, Backslash)
       THEN Some(InvalidPath)
  ELSE IF len_ge_2(component) /\ second_char_is_colon(component) THEN Some(InvalidPath)
  ELSE None

ParsedRequest(server_name, url_file_part) ==
  [ok |-> TRUE, server_name |-> server_name, url_file_part |-> url_file_part]
ParseErr(e) == [ok |-> FALSE, err |-> e]

\* parse_request_path
parse_request_path(requested_path) ==
  IF requested_path = <<>> THEN ParseErr(NotFound)
  ELSE LET parts == splitn2(requested_path)
       IN  IF Len(parts) # 2 THEN ParseErr(NotFound)
           ELSE IF validate_path_component(parts[1]) # None
                THEN ParseErr(validate_path_component(parts[1])[1])
           ELSE IF validate_path_component(parts[2]) # None
                THEN ParseErr(validate_path_component(parts[2])[1])
           ELSE ParsedRequest(parts[1], parts[2])

\* the configuration entry whose name has the text `name`
config_by_text(servers, name) ==
  IF Len(name) = 1 THEN get_server_config(servers, name[1]) ELSE None

\* HashMap::get on url_to_path_map with the URL as text
url_map_get(map, url_text) ==
  LET ks == {k \in DOMAIN map : JoinText(k) = url_text}
  IN  IF ks = {} THEN None ELSE Some(map[CHOOSE k \in ks : TRUE])

\* format!("{}/{}/{}", base_url, server_name, url_file_part)
requested_url(base_url, server_name, url_file_part) ==
  <<base_url, Slash>> \o server_name \o <<Slash>> \o url_file_part

\* resolve_file_path answering with a path of the index whatever the URL is
resolve_file_path_any(version, url_file_part, base_url, server_name) ==
  LET map == version.url_to_path_map
  IN  IF DOMAIN map = {} THEN None ELSE Some(map[CHOOSE k \in DOMAIN map : TRUE])

\* resolve_file_path
resolve_file_path(version, url_file_part, base_url, server_name) ==
  url_map_get(version.url_to_path_map, requested_url(base_url, server_name, url_file_part))

\* the key of FileCacheManager::get_file and add_file: format!("{}/{}", server, path)
file_key(server, path) == server \o <<Slash>> \o JoinText(path)

\* the accesses a handler makes, in order
Access(what, key) == [what |-> what, key |-> key]
Served(from, path) == [status |-> 200, from |-> from, path |-> path]

\* serve_from_disk: `files` are the paths that exist
serve_from_disk(full_path, files) ==
  IF full_path \notin files THEN NotFound ELSE Served("disk", full_path)

\* serve_file on the URI path `uri_path`, with the configuration `servers`,
\* the Manifest Store `cache`, the keys `lru` of the file-content cache and
\* the files `files` on disk: the response and the accesses made
serve_file(uri_path, servers, cache, lru, files) ==
  LET requested_path == trim_start_slashes(uri_path)
      parsed == parse_request_path(requested_path)
  IN  IF ~parsed.ok THEN [resp |-> parsed.err, trace |-> <<>>]
      ELSE
      LET version_data == cache_get(cache, parsed.server_name)
          t1 == <<Access("store", parsed.server_name)>>
      IN  IF version_data = None
          THEN [resp |-> ServerNotFound(parsed.server_name, get_all_servers(servers)),
                trace |-> t1]
          ELSE
          LET server_config == config_by_text(servers, parsed.server_name)
              t2 == t1 \o <<Access("config", parsed.server_name)>>
          IN  IF server_config = None THEN [resp |-> NotFound, trace |-> t2]
              ELSE
              LET actual_path == resolve_file_path(version_data[1], parsed.url_file_part,
                                                   BaseUrl, parsed.server_name)
                  t3 == t2 \o <<Access("index", requested_url(BaseUrl, parsed.server_name,
                                                              parsed.url_file_part))>>
              IN  IF actual_path = None THEN [resp |-> NotFound, trace |-> t3]
                  ELSE
                  LET key == file_key(parsed.server_name, actual_path[1])
                      t4 == t3 \o <<Access("lru", key)>>
                      full_path == ServerPath(BasePath, server_config[1].name) \o actual_path[1]
                  IN  IF key \in lru THEN [resp |-> Served("lru", key), trace |-> t4]
                      ELSE [resp |-> serve_from_disk(full_path, files),
                            trace |-> t4 \o <<Access("disk", full_path)>>]

\* Router::route("/", ..).route("/:server_name.json", ..).fallback(serve_file):
\* the fallback gets every path that is neither "/" nor one non-empty segment
is_file_route(uri_path) ==
  /\ uri_path # <<Slash>>
  /\ ~(Len(uri_path) >= 2 /\ uri_path[1] = Slash
         /\ \A i \in 2..Len(uri_path) : uri_path[i] # Slash)

\* ------------------------------------------------------------------ path index
\* ServerPathCache::rebuild: directory -> name, for the enabled servers
RECURSIVE rebuild(_, _)
rebuild(servers, base_path) ==
  IF servers = <<>> THEN EmptyMap
  ELSE LET rest == rebuild(Tail(servers), base_path)
           s == Head(servers)
       IN  IF s.enabled /\ ServerPath(base_path, s.name) \notin DOMAIN rest
           THEN MapInsert(rest, ServerPath(base_path, s.name), s.name)
           ELSE rest

\* a prefix test that compares the first component only
starts_with_first(path, prefix) ==
  path # <<>> /\ prefix # <<>> /\ path[1] = prefix[1]

\* Path::starts_with: component-wise prefix
starts_with(path, prefix) ==
  Len(prefix) <= Len(path) /\ SubSeq(path, 1, Len(prefix)) = prefix

\* ServerPathCache::find_server: the results one call can give (the map is
\* iterated in arbitrary order and the first match is returned)
find_server(paths, path) ==
  LET hits == {d \in DOMAIN paths : starts_with(path, d)}
  IN  IF hits = {} THEN {None} ELSE {Some(paths[d]) : d \in hits}

\* ServerPathCache::update_server and ServerPathCache::remove_server
update_server(paths, server_name, server_path) == MapInsert(paths, server_path, server_name)
remove_server(paths, server_path) == MapRemove(paths, server_path)

\* ------------------------------------------------------------------ scanning a profile
\* ServerScanner::scan_server / scan_server_silent on the directory `dir`
\* ([exists, files]): Err when the profile directory does not exist
scan_server(config, dir) ==
  IF ~dir.exists THEN {ScanErr}
  ELSE build_version_metadata(config, dir.files)

\* `builder` is what a scan of the profile's files as they are now, under its
\* configuration as it is now, returns
ScanIsCurrent(servers, d, name, builder) ==
  /\ d[name].exists
  /\ FindServer(servers, name) # None
  /\ builder \in Builders(FindServer(servers, name)[1], d[name].files)

\* ------------------------------------------------------------------ events
CacheNew(server) == [event |-> "CacheNew", server |-> server]
CacheUpdated(server, diff) ==
  [event |-> "CacheUpdated", server |-> server,
   changes |-> <<Len(diff.added), Len(diff.modified), Len(diff.removed)>>]
CacheUnchanged(server) == [event |-> "CacheUnchanged", server |-> server]

\* ------------------------------------------------------------------ remote sync
\* the upload and delete tasks sync_cloud_storage spawns for a diff
SyncTasks(diff) == 1..(Len(diff.added) + Len(diff.modified) + Len(diff.removed))

\* sync_cloud_storage: `task.await??` returns the first failure
sync_cloud_storage(diff, failed) == IF failed = {} THEN "Ok" ELSE "Err"

\* no remote sync and no purge made
NoEffects == [sync |-> None, purge |-> None]

\* ------------------------------------------------------------------ CDN purge
MAX_RETRIES == 3
INITIAL_BACKOFF == 100   \* milliseconds

\* what one call of purge_cache_internal can return: Ok, or the error of the
\* send (connection, 10 s timeout), of the body parse, or success = false
PurgeErrors == {"send", "json", "not_success"}
AttemptResults == {"ok"} \cup PurgeErrors

\* one iteration of a retry loop that waits INITIAL_BACKOFF after every failure
\* but the last
purge_attempt_flat(attempt, r) ==
  IF r = "ok" THEN [ret |-> Some("Ok"), sleep |-> None]
  ELSE IF attempt < MAX_RETRIES - 1
       THEN [ret |-> None, sleep |-> Some(INITIAL_BACKOFF)]
       ELSE [ret |-> Some(r), sleep |-> None]

\* one iteration of the retry loop of purge_cache, attempt in 0..MAX_RETRIES-1,
\* r the result of purge_cache_internal: the value returned (Option) and the
\* sleep made (Option)
purge_attempt(attempt, r) ==
  IF r = "ok" THEN [ret |-> Some("Ok"), sleep |-> None]
  ELSE IF attempt < MAX_RETRIES - 1
       THEN [ret |-> None, sleep |-> Some(INITIAL_BACKOFF * 2^attempt)]
       ELSE [ret |-> Some(r), sleep |-> None]

\* purge_cache as a whole, results[i] the result of attempt i-1: "Ok", the
\* error returned, or "unreachable" when the loop runs out
RECURSIVE purge_cache(_, _)
purge_cache(attempt, results) ==
  IF attempt >= MAX_RETRIES THEN "unreachable"
  ELSE LET a == purge_attempt(attempt, results[attempt + 1])
       IN  IF a.ret # None THEN a.ret[1] ELSE purge_cache(attempt + 1, results)

\* ------------------------------------------------------------------ hashing
\* the sub-trees build_version_metadata scans at the same time (tokio::join!)
Subtrees == {"libraries", "mods", "natives", "client", "assets"}

\* Semaphore::new(batch_size) and buffer_unordered(batch_size) of one
\* sub-tree: how many of its files can be between acquire and the end of
\* compute_sha1_with_size.  scan_client hashes its jar without a semaphore.
permits(cache, subtree) == IF subtree = "client" THEN 1 ELSE cache.batch[subtree]

\* ------------------------------------------------------------------ warm-up of the file-content cache
\* a file below a profile directory: the directories it lies in, its name
\* and whether FileCache::from_file_sync can read it
WarmFile(dirs, stem, ext, readable) ==
  [dirs |-> dirs, stem |-> stem, ext |-> ext, readable |-> readable]

\* load_server_files, the filter of the walk: .jar, .json and what lies
\* below {server_path}/assets
is_cached_kind(f) ==
  \/ f.ext \in {"jar", "json"}
  \/ f.dirs # <<>> /\ Head(f.dirs) = "assets"

\* Path::to_string_lossy of the path below the profile directory; `sep` is
\* the separator of the platform
RECURSIVE path_text(_, _)
path_text(segs, sep) ==
  IF segs = <<>> THEN <<>>
  ELSE IF Len(segs) = 1 THEN Head(segs)
  ELSE Head(segs) \o <<sep>> \o path_text(Tail(segs), sep)

\* str::replace(from, to)
replace(text, from, to) == [i \in 1..Len(text) |-> IF text[i] = from THEN to ELSE text[i]]

\* add_file: format!("{}/{}", server, path)
add_file_key(server, path) == <<server, Slash>> \o path

\* load_server_files for one profile: `panics` says that the blocking task
\* ended with a JoinError; unreadable files are dropped by the filter_map
load_server_files(server_name, files, sep, panics) ==
  IF panics THEN [ok |-> FALSE, inserts |-> {}]
  ELSE [ ok |-> TRUE,
         inserts |->
           { add_file_key(server_name,
                          replace(path_text([i \in 1..Len(f.dirs) |-> <<f.dirs[i]>>]
                                              \o << <<f.stem, Dot, f.ext>> >>, sep),
                                  Backslash, Slash)) :
               f \in {g \in files : is_cached_kind(g) /\ g.readable} } ]

\* a warm-up that gives up when one profile fails
load_all_servers_strict(results) ==
  IF \E r \in results : ~r.ok THEN "Err" ELSE "Ok"

\* load_all_servers: what it returns for the results of the profiles
load_all_servers(results) == "Ok"

\* ------------------------------------------------------------------ configuration versions
\* the configuration the v-th load of the file produced; a field is written
\* as the load it comes from
ConfigVersion(v) ==
  [servers |-> v, base_path |-> v, batch |-> v, checksum_buffer_size |-> v]

\* ------------------------------------------------------------------ the operations of a remote sync
StorageOp(op, key) == [op |-> op, key |-> key]

\* sync_cloud_storage: the upload_file and delete_file calls its tasks make;
\* `failed` are the tasks that fail, counted as in SyncTasks.  Every upload
\* task is spawned before the first is awaited; the delete tasks are spawned
\* after `task.await??` has passed every upload
sync_operations(diff, failed) ==
  {StorageOp("upload", c.remote_key) : c \in Range(diff.added \o diff.modified)}
    \cup (IF \E t \in failed : t <= Len(diff.added) + Len(diff.modified)
          THEN {}
          ELSE {StorageOp("delete", c.remote_key) : c \in Range(diff.removed)})

\* ------------------------------------------------------------------ config watcher
\* Config::from_file_no_migration on the file as it is
from_file_no_migration(file) == IF file.parses THEN Some(file.version) ELSE None

\* a reload that leaves the in-memory configuration as it was
keep_config(config, new_config) == config

\* *config_write = new_config
swap_config(config, new_config) == new_config

\* ------------------------------------------------------------------ state
VARIABLES
  lkHolders,     \* config lock check: the guards of the config RwLock that are held, [task, mode]
  lkQueue,       \* config lock check: the acquisitions that wait, oldest first
  lkPc,          \* config lock check: where each task is
  lkTodo,        \* config lock check: the force-rescans the reload still has to make
  flDisk,        \* failed-scan check: the profile directory, [exists, files]
  flStore,       \* failed-scan check: Option, the manifest stored for the profile
  flUpdated,     \* failed-scan check: Option, the last_updated entry of the profile
  flOut,         \* failed-scan check: Option, the events and side effects of the last rescan
  rcDisk,        \* overwrite check: how many times the files of the profile have changed
  rcStore,       \* overwrite check: Option, the snapshot the stored manifest was computed from
  rcLoop,        \* overwrite check: Option, the snapshot the loop's rescan in flight has read
  rcForce,       \* overwrite check: Option, the snapshot the force-rescan in flight has read
  byPc,          \* served-bytes check: "off", "warm" (scanned, before the warm-up) or "run"
  byDisk,        \* served-bytes check: the files of the profile
  byStore,       \* served-bytes check: Option, the manifest the Manifest Store holds
  byLru,         \* served-bytes check: key -> SHA-1 of the bytes the file-content cache holds
  byOut,         \* served-bytes check: Option, [resp, sha1, recorded] of the last file request
  dbFile,        \* debounce check: the config file, [version, parses]
  dbWrites,      \* debounce check: writes the operator has made to the config file
  dbNotify,      \* debounce check: change events the notify thread has not sent yet
  dbChan,        \* debounce check: reload signals in the channel
  dbPc,          \* debounce check: where the config watcher task is
  dbDrained,     \* debounce check: signals the drain after the debounce removed
  dbRead,        \* debounce check: the version of the file the task read last
  dbNew,         \* debounce check: Option, the configuration the task has loaded
  dbConfig,      \* debounce check: the version of the in-memory configuration
  upPhase,       \* sync check: "off", "init" (before the initial scan) or "run"
  upRemote,      \* sync check: storage.is_remote()
  upDisk,        \* sync check: the files of the profile
  upStore,       \* sync check: Option, the manifest the Manifest Store holds
  upUploaded,    \* sync check: the (remote key, content hash) pairs uploads were issued for
  upLast,        \* sync check: Option, [diff, issued] of the last remote sync
  snConfig,      \* snapshot check: the configuration behind the RwLock
  snPc,          \* snapshot check: the rescan loop: "off", "wait", "next", "scan"
  snSnap,        \* snapshot check: Option, (servers, base_path) the pass has cloned
  snLeft,        \* snapshot check: the servers of the pass not rescanned yet
  snUsed,        \* snapshot check: Option, the values the last rescan_server was run with
  wmServers,     \* warm-up check: Option, the servers load_all_servers was given
  wmDisk,        \* warm-up check: profile -> the files below its directory
  wmSep,         \* warm-up check: the path separator of the platform
  wmPanics,      \* warm-up check: the profiles whose blocking task fails
  wmLoaded,      \* warm-up check: profile -> Option, the result of load_server_files
  wmInserted,    \* warm-up check: the keys inserted into the file-content cache
  wmResult,      \* warm-up check: Option, what load_all_servers returned
  sdTask,        \* shutdown check: the rescan task: "none", "waiting", "scanning", "ended"
  sdSent,        \* shutdown check: shutdown_tx.send(()) was called
  sdScan,        \* shutdown check: Option, buffers the rescan in progress has read
  sdResults,     \* shutdown check: how the rescans that returned ended
  sdJoined,      \* shutdown check: shutdown() has awaited the task's handle
  hsCache,       \* hash check: Option, the [cache] settings the scan was given
  hsWaiting,     \* hash check: sub-tree -> files not hashed yet
  hsHashing,     \* hash check: sub-tree -> files being hashed
  svServers,     \* serve check: config.servers when the request is handled
  svCache,       \* serve check: the Manifest Store, profile -> Option manifest
  svLru,         \* serve check: the keys the file-content cache holds
  svFiles,       \* serve check: the paths of the files on disk
  svReq,         \* serve check: Option, the URI path of the request
  svOut,         \* serve check: Option, [resp, trace] of the handler
  lrCap,         \* LRU check: Option; Some(Option max_capacity) once the cache is built
  lrG,           \* LRU check: max_memory_cache_gb
  lrMap,         \* LRU check: key -> weight, the entries a get can return
  lrOrder,       \* LRU check: the admitted keys, least recently used first
  lrPending,     \* LRU check: the inserts the policy has not processed yet
  lrInserts,     \* LRU check: the keys add_file was called with
  lrGot,         \* LRU check: Option, what the last get_file returned
  lrStats,       \* LRU check: Option, what the last get_stats returned
  ixPaths,       \* index check: ServerPathCache.paths, directory -> profile name
  ixQuery,       \* index check: Option, the path of the last find_server call
  ixRes,         \* index check: Option, what that call returned (an Option<String>)
  scDir,         \* scan check: the profile directory scanned, [exists, files]
  scRes,         \* scan check: Option, the result of scan_server
  cfServer,      \* purge check: the profile purge_cache is called for
  cfState,       \* purge check: "idle", "attempt", "sleep", "returned", "unreachable"
  cfAttempt,     \* purge check: the loop variable `attempt`
  cfResults,     \* purge check: results of the attempts made so far
  cfSleeps,      \* purge check: the sleeps made so far, in milliseconds
  cfRet,         \* purge check: Option, what purge_cache returned
  dpc,    \* diff check: "pick" -> "apply" -> "done"
  dA,     \* diff check: Option, manifest A (the stored one)
  dB,     \* diff check: Option, manifest B (the new scan)
  dOut,   \* diff check: A's URL index after apply_to_url_map(compute(A, B))
  settings,      \* [cache_enabled, auto_scan, rescan_interval, remote, cloudflare]:
                 \* read once at startup (remote: the storage backend is S3;
                 \* cloudflare: a CloudflareClient is configured)
  config,        \* Config.servers behind the RwLock
  cfgFile,       \* the config file: Option of the server list it parses to
  cfgSignal,     \* a change signal waits in the config watcher's channel
  cfgEdits,      \* edits made to the config file so far
  disk,          \* profile name -> [exists, files]
  fsChanges,     \* profile -> changes made to its files so far
  store,         \* Manifest Store: profile name -> Option<Arc<VersionBuilder>>
  last_updated,  \* profile name -> Option timestamp
  paused,        \* RescanOrchestrator.paused
  pathIndex,     \* ServerPathCache.paths
  lpc,           \* rescan loop task: "init", "start", "idle", "scan", "commit", "off"
  ltodo,         \* rescan loop: server configs still to rescan in this pass
  lnew,          \* rescan loop: Option, the manifest scanned for Head(ltodo)
  watched,       \* directories the file watcher watches
  fsChan,        \* file watcher channel: event paths not yet received
  pending,       \* pending_servers
  timer,         \* debounce_timer: Option, ticks until the deadline
  rpc,           \* reload controller: "off", "idle", "debounce", "paused", "force"
  rnew,          \* reload controller: Option, the parsed new server list
  rtodo,         \* reload controller: force-rescans still to do, [name, added]
  rres,          \* reload controller: Option, scan result of the force-rescan in flight
  emitted,       \* lifecycle events emitted by the last step
  inserted,      \* [server, by]: cache.insert calls made by the last step
  effects,       \* [sync, purge]: Option results of the remote sync and of the CDN
                 \* purge made by the last step
  sinceEvent,    \* profile -> ticks since the watcher last reported an event for it
  burstRescans,  \* profile -> Option, loop rescans started since its current burst began
  settled,       \* profile -> a rescan that saw its current files and config has completed
  rold,          \* Option, the server list the last reload replaced
  forced         \* profile -> force_rescan calls the last reload has made for it

dvars == <<dpc, dA, dB, dOut>>
purgevars == <<cfServer, cfState, cfAttempt, cfResults, cfSleeps, cfRet>>
scanvars == <<scDir, scRes>>
indexvars == <<ixPaths, ixQuery, ixRes>>
servevars == <<svServers, svCache, svLru, svFiles, svReq, svOut>>
lruvars == <<lrCap, lrG, lrMap, lrOrder, lrPending, lrInserts, lrGot, lrStats>>
hashvars == <<hsCache, hsWaiting, hsHashing>>
stopvars == <<sdTask, sdSent, sdScan, sdResults, sdJoined>>
warmvars == <<wmServers, wmDisk, wmSep, wmPanics, wmLoaded, wmInserted, wmResult>>
snapvars == <<snConfig, snPc, snSnap, snLeft, snUsed>>
upvars == <<upPhase, upRemote, upDisk, upStore, upUploaded, upLast>>
debvars == <<dbFile, dbWrites, dbNotify, dbChan, dbPc, dbDrained, dbRead, dbNew, dbConfig>>
bytesvars == <<byPc, byDisk, byStore, byLru, byOut>>
racevars == <<rcDisk, rcStore, rcLoop, rcForce>>
failvars == <<flDisk, flStore, flUpdated, flOut>>
lockvars == <<lkHolders, lkQueue, lkPc, lkTodo>>
\* the variables of the checks that run without the service
cvars == <<dvars, purgevars, scanvars, indexvars, servevars, lruvars, hashvars, stopvars, warmvars, snapvars, upvars, debvars, bytesvars, racevars, failvars, lockvars>>
envvars == <<cfgFile, cfgEdits, disk, fsChanges>>
loopvars == <<lpc, ltodo, lnew, watched, pending, timer>>
reloadvars == <<rpc, rnew, rtodo, rres>>
storevars == <<store, last_updated>>
histvars == <<emitted, inserted, effects>>
burstvars == <<sinceEvent, burstRescans>>
forcevars == <<rold, forced>>

vars == <<cvars, settings, config, cfgFile, cfgSignal, cfgEdits, disk, fsChanges,
          store, last_updated, paused, pathIndex, lpc, ltodo, lnew, watched, fsChan,
          pending, timer, rpc, rnew, rtodo, rres, emitted, inserted, effects, sinceEvent,
          burstRescans, settled, rold, forced>>

Profiles == {"alpha", "beta"}

EventMode == settings.rescan_interval = 0

\* what the directory of profile alpha holds when the service starts: nothing,
\* one native, or a client jar that cannot be read
StartupFiles ==
  { {},
    {WithSha(DiskFile("natives", <<"linux">>, "x", "so"), 1)},
    {Unreadable(WithSha(DiskFile("client", <<>>, "game", "jar"), 1))} }

\* initialize_folders: the directory tree of every enabled server exists
StartupDisk(servers, files) ==
  [p \in Profiles |->
     IF \E i \in 1..Len(servers) : servers[i].name = p /\ servers[i].enabled
     THEN [exists |-> TRUE, files |-> IF p = "alpha" THEN files ELSE {}]
     ELSE [exists |-> FALSE, files |-> {}]]

DIdle ==
  /\ dpc = "pick"
  /\ dA = None
  /\ dB = None
  /\ dOut = EmptyMap

\* the settings the service can start with: local storage without a CDN under
\* every cache setting, and S3 storage with Cloudflare under interval rescans
StartupSettings ==
  { s \in [cache_enabled : BOOLEAN, auto_scan : BOOLEAN, rescan_interval : {0, 30},
           remote : BOOLEAN, cloudflare : BOOLEAN] :
      (s.remote \/ s.cloudflare) =>
        (s.remote /\ s.cloudflare /\ s.cache_enabled /\ s.auto_scan
           /\ s.rescan_interval = 30) }

PurgeIdle ==
  /\ cfServer = None
  /\ cfState = "idle"
  /\ cfAttempt = 0
  /\ cfResults = <<>>
  /\ cfSleeps = <<>>
  /\ cfRet = None

ScanIdle ==
  /\ scDir = [exists |-> FALSE, files |-> {}]
  /\ scRes = None

\* ServerPathCache::new
IndexIdle ==
  /\ ixPaths = EmptyMap
  /\ ixQuery = None
  /\ ixRes = None

ServeIdle ==
  /\ svServers = <<>>
  /\ svCache = [p \in Profiles |-> None]
  /\ svLru = {}
  /\ svFiles = {}
  /\ svReq = None
  /\ svOut = None

LruIdle ==
  /\ lrCap = None
  /\ lrG = 0
  /\ lrMap = EmptyMap
  /\ lrOrder = <<>>
  /\ lrPending = <<>>
  /\ lrInserts = {}
  /\ lrGot = None
  /\ lrStats = None

HashIdle ==
  /\ hsCache = None
  /\ hsWaiting = [s \in Subtrees |-> 0]
  /\ hsHashing = [s \in Subtrees |-> 0]

StopIdle ==
  /\ sdTask = "none"
  /\ sdSent = FALSE
  /\ sdScan = None
  /\ sdResults = <<>>
  /\ sdJoined = FALSE

WarmIdle ==
  /\ wmServers = None
  /\ wmDisk = [p \in Profiles |-> {}]
  /\ wmSep = Slash
  /\ wmPanics = {}
  /\ wmLoaded = [p \in Profiles |-> None]
  /\ wmInserted = {}
  /\ wmResult = None

SnapIdle ==
  /\ snConfig = ConfigVersion(0)
  /\ snPc = "off"
  /\ snSnap = None
  /\ snLeft = 0
  /\ snUsed = None

UpIdle ==
  /\ upPhase = "off"
  /\ upRemote = FALSE
  /\ upDisk = {}
  /\ upStore = None
  /\ upUploaded = {}
  /\ upLast = None

DebIdle ==
  /\ dbFile = [version |-> 0, parses |-> TRUE]
  /\ dbWrites = 0
  /\ dbNotify = 0
  /\ dbChan = 0
  /\ dbPc = "off"
  /\ dbDrained = 0
  /\ dbRead = 0
  /\ dbNew = None
  /\ dbConfig = 0

BytesIdle ==
  /\ byPc = "off"
  /\ byDisk = {}
  /\ byStore = None
  /\ byLru = EmptyMap
  /\ byOut = None

RaceIdle ==
  /\ rcDisk = 0
  /\ rcStore = None
  /\ rcLoop = None
  /\ rcForce = None

FailIdle ==
  /\ flDisk = [exists |-> TRUE, files |-> {}]
  /\ flStore = None
  /\ flUpdated = None
  /\ flOut = None

LockIdle ==
  /\ lkHolders = {}
  /\ lkQueue = <<>>
  /\ lkPc = [t \in {"loop", "handler", "reload"} |-> "idle"]
  /\ lkTodo = 0

\* no check that runs without the service has started
ChecksIdle ==
  /\ DIdle
  /\ PurgeIdle
  /\ ScanIdle
  /\ IndexIdle
  /\ ServeIdle
  /\ LruIdle
  /\ HashIdle
  /\ StopIdle
  /\ WarmIdle
  /\ SnapIdle
  /\ UpIdle
  /\ DebIdle
  /\ BytesIdle
  /\ RaceIdle
  /\ FailIdle
  /\ LockIdle

\* the state after CacheManager::new
Init ==
  /\ ChecksIdle
  /\ settings \in StartupSettings
  /\ config \in StartupServerLists
  /\ cfgFile = Some(config)
  /\ cfgSignal = FALSE
  /\ cfgEdits = 0
  /\ disk \in {StartupDisk(config, f) : f \in StartupFiles}
  /\ fsChanges = [p \in Profiles |-> 0]
  /\ store = [p \in Profiles |-> None]
  /\ last_updated = [p \in Profiles |-> None]
  /\ paused = FALSE
  /\ pathIndex = rebuild(config, BasePath)
  /\ lpc = "init"
  /\ ltodo = <<>>
  /\ lnew = None
  /\ watched = {}
  /\ fsChan = <<>>
  /\ pending = {}
  /\ timer = None
  /\ rpc = "off"
  /\ rnew = None
  /\ rtodo = <<>>
  /\ rres = None
  /\ emitted = {}
  /\ inserted = {}
  /\ effects = NoEffects
  /\ sinceEvent = [p \in Profiles |-> DebounceTicks]
  /\ burstRescans = [p \in Profiles |-> None]
  /\ settled = [p \in Profiles |-> FALSE]
  /\ rold = None
  /\ forced = [p \in Profiles |-> 0]

\* ------------------------------------------------------------------ the operator
Silent ==
  /\ emitted' = {}
  /\ inserted' = {}
  /\ effects' = NoEffects

\* the operator rewrites the config file of the running service; the config
\* watcher gets a change signal
EditConfig ==
  /\ rpc # "off"
  /\ cfgEdits < MaxConfigEdits
  /\ cfgEdits' = cfgEdits + 1
  /\ cfgFile' \in {Some(l) : l \in ServerLists} \cup {None}
  /\ cfgSignal' = TRUE
  /\ Silent
  /\ UNCHANGED <<cvars, settings, config, disk, fsChanges, storevars, paused, pathIndex,
                 loopvars, fsChan, reloadvars, burstvars, settled, forcevars>>

RECURSIVE Sum(_, _)
Sum(f, S) == IF S = {} THEN 0 ELSE LET x == CHOOSE y \in S : TRUE IN f[x] + Sum(f, S \ {x})

\* the rescan loop is past its start-up
LoopRunning == lpc \notin {"init", "start"}

EventPath(p, f) == ServerPath(BasePath, p) \o <<f.kind>> \o RelPath(f)

\* the notify watcher reports a create/modify/remove below a watched directory
Notify(p, f) ==
  IF ServerPath(BasePath, p) \in watched
  THEN /\ fsChan' = Append(fsChan, EventPath(p, f))
       /\ sinceEvent' = [sinceEvent EXCEPT ![p] = 0]
       /\ burstRescans' = [burstRescans EXCEPT
                             ![p] = IF sinceEvent[p] >= DebounceTicks THEN Some(0) ELSE @]
  ELSE UNCHANGED <<fsChan, burstvars>>

SamePath(f, g) == f.kind = g.kind /\ f.dirs = g.dirs /\ f.stem = g.stem /\ f.ext = g.ext

\* the operator creates or overwrites a file of a profile
FsWrite ==
  /\ LoopRunning
  /\ Sum(fsChanges, Profiles) < MaxFsChanges
  /\ \E p \in Profiles, f \in SysPaths, sha \in 1..MaxSha :
       /\ disk[p].exists
       /\ WithSha(f, sha) \notin disk[p].files
       /\ disk' = [disk EXCEPT ![p].files =
                     {g \in @ : ~SamePath(g, f)} \cup {WithSha(f, sha)}]
       /\ Notify(p, f)
       /\ fsChanges' = [fsChanges EXCEPT ![p] = @ + 1]
       /\ settled' = [settled EXCEPT ![p] = FALSE]
  /\ Silent
  /\ UNCHANGED <<cvars, settings, config, cfgFile, cfgSignal, cfgEdits, storevars, paused,
                 pathIndex, loopvars, reloadvars, forcevars>>

\* the operator deletes a file of a profile
FsRemove ==
  /\ LoopRunning
  /\ Sum(fsChanges, Profiles) < MaxFsChanges
  /\ \E p \in Profiles :
       \E f \in disk[p].files :
         /\ disk' = [disk EXCEPT ![p].files = @ \ {f}]
         /\ Notify(p, f)
         /\ fsChanges' = [fsChanges EXCEPT ![p] = @ + 1]
         /\ settled' = [settled EXCEPT ![p] = FALSE]
  /\ Silent
  /\ UNCHANGED <<cvars, settings, config, cfgFile, cfgSignal, cfgEdits, storevars, paused,
                 pathIndex, loopvars, reloadvars, forcevars>>

\* one clock tick passes
Tick ==
  /\ \/ timer # None /\ timer[1] > 0
     \/ \E p \in Profiles : sinceEvent[p] < DebounceTicks
  /\ timer' = IF timer # None /\ timer[1] > 0 THEN Some(timer[1] - 1) ELSE timer
  /\ sinceEvent' = [p \in Profiles |->
                      IF sinceEvent[p] < DebounceTicks THEN sinceEvent[p] + 1 ELSE sinceEvent[p]]
  /\ Silent
  /\ UNCHANGED <<cvars, settings, config, envvars, cfgSignal, storevars, paused, pathIndex,
                 lpc, ltodo, lnew, watched, pending, fsChan, reloadvars, burstRescans, settled,
                 forcevars>>

\* ------------------------------------------------------------------ startup
Now == "now"   \* get_current_timestamp()

\* what scan_all_servers commits for one scan result
InitialManifest(config_s, result) ==
  IF result.ok THEN build_url_map(result.builder) ELSE EmptyBuilder(config_s)

\* scan_all_servers: the stores it can leave behind
ScanAllStores ==
  LET S == EnabledServers(config)
      Cands(p) ==
        LET c == FindServer(S, p)
        IN  IF c = None THEN {store[p]}
            ELSE {Some(InitialManifest(c[1], r)) : r \in scan_server(c[1], disk[p])}
  IN  {st \in [Profiles -> UNION {Cands(p) : p \in Profiles}] : \A p \in Profiles : st[p] \in Cands(p)}

\* main: CacheManager::initialize, then the config watcher and the rescan
\* loop are spawned
Startup ==
  /\ lpc = "init"
  /\ IF settings.cache_enabled /\ settings.auto_scan
     THEN /\ store' \in ScanAllStores
          /\ last_updated' = [p \in Profiles |->
                                IF p \in Names(EnabledServers(config)) THEN Some(Now)
                                ELSE last_updated[p]]
          /\ emitted' = {CacheNew(n) : n \in Names(EnabledServers(config))}
          /\ inserted' = {[server |-> n, by |-> "initial"] : n \in Names(EnabledServers(config))}
          /\ effects' = NoEffects
          /\ settled' = [p \in Profiles |-> p \in Names(EnabledServers(config))]
     ELSE /\ UNCHANGED <<storevars, settled>>
          /\ Silent
  /\ lpc' = IF settings.cache_enabled THEN "start" ELSE "off"
  /\ rpc' = "idle"
  /\ UNCHANGED <<cvars, settings, config, envvars, cfgSignal, paused, pathIndex, ltodo, lnew,
                 watched, fsChan, pending, timer, rnew, rtodo, rres, burstvars, forcevars>>

\* ------------------------------------------------------------------ rescan loop
\* run_rescan_loop up to its first wait; in event mode run_file_watcher_loop
\* installs the watches
LoopStart ==
  /\ lpc = "start"
  /\ lpc' = "idle"
  /\ watched' = IF EventMode
                THEN {ServerPath(BasePath, n) : n \in {m \in Names(EnabledServers(config)) : disk[m].exists}}
                ELSE watched
  /\ Silent
  /\ UNCHANGED <<cvars, settings, config, envvars, cfgSignal, storevars, paused, pathIndex,
                 ltodo, lnew, fsChan, pending, timer, reloadvars, burstvars, settled, forcevars>>

\* the end of one rescan_server call of the loop: next server, or back to the wait
LoopAdvance ==
  /\ ltodo' = Tail(ltodo)
  /\ lnew' = None
  /\ IF Tail(ltodo) = <<>>
     THEN /\ lpc' = "idle"
          /\ timer' = IF EventMode THEN None ELSE timer
     ELSE /\ lpc' = "scan"
          /\ UNCHANGED timer

\* interval mode: a tick of the interval
IntervalTick ==
  /\ ~EventMode
  /\ lpc = "idle"
  /\ IF paused
     THEN UNCHANGED <<lpc, ltodo>>
     ELSE /\ ltodo' = EnabledServers(config)
          /\ lpc' = IF ltodo' = <<>> THEN "idle" ELSE "scan"
  /\ Silent
  /\ UNCHANGED <<cvars, settings, config, envvars, cfgSignal, storevars, paused, pathIndex,
                 lnew, watched, fsChan, pending, timer, reloadvars, burstvars, settled, forcevars>>

\* event mode: the loop receives one file event
LoopRecv ==
  /\ EventMode
  /\ lpc = "idle"
  /\ fsChan # <<>>
  /\ fsChan' = Tail(fsChan)
  /\ IF paused
     THEN UNCHANGED <<pending, timer>>
     ELSE /\ \E r \in find_server(pathIndex, Head(fsChan)) :
               pending' = IF r = None THEN pending ELSE pending \cup {r[1]}
          /\ timer' = Some(DebounceTicks)
  /\ Silent
  /\ UNCHANGED <<cvars, settings, config, envvars, cfgSignal, storevars, paused, pathIndex,
                 lpc, ltodo, lnew, watched, reloadvars, burstvars, settled, forcevars>>

\* event mode: the debounce deadline has passed
LoopTimer ==
  /\ EventMode
  /\ lpc = "idle"
  /\ timer # None
  /\ timer[1] = 0
  /\ pending' = {}
  /\ \E order \in Perms({n \in pending : \E i \in 1..Len(config) : config[i].name = n /\ config[i].enabled}) :
       ltodo' = [i \in 1..Len(order) |-> FindServer(config, order[i])[1]]
  /\ IF ltodo' = <<>>
     THEN /\ timer' = None
          /\ UNCHANGED lpc
     ELSE /\ lpc' = "scan"
          /\ UNCHANGED timer
  /\ Silent
  /\ UNCHANGED <<cvars, settings, config, envvars, cfgSignal, storevars, paused, pathIndex,
                 lnew, watched, fsChan, reloadvars, burstvars, settled, forcevars>>

\* rescan_server up to the end of the scan
LoopScan ==
  /\ lpc = "scan"
  /\ \E r \in scan_server(Head(ltodo), disk[Head(ltodo).name]) :
       IF r.ok
       THEN /\ lnew' = Some(r.builder)
            /\ lpc' = "commit"
            /\ UNCHANGED <<ltodo, timer>>
       ELSE LoopAdvance
  /\ burstRescans' = [burstRescans EXCEPT
                        ![Head(ltodo).name] = IF @ = None THEN @ ELSE Some(@[1] + 1)]
  /\ Silent
  /\ UNCHANGED <<cvars, settings, config, envvars, cfgSignal, storevars, paused, pathIndex,
                 watched, fsChan, pending, reloadvars, sinceEvent, settled,
                 forcevars>>

\* a commit that is given up when the remote sync fails
update_cache_unless_sync_failed(server_config, old_builder, new_builder, sync, purge) ==
  LET name == server_config.name
      diff == compute(name, old_builder, new_builder)
      is_new == old_builder = None
      new_builder_mut == IF is_new THEN build_url_map(new_builder)
                         ELSE apply_to_url_map(diff, new_builder)
  IN  IF has_changes(diff)
      THEN IF sync = Some("Err")
           THEN [insert |-> None, events |-> {}, effects |-> [sync |-> sync, purge |-> None]]
           ELSE [ insert |-> Some(new_builder_mut),
                  events |-> {IF is_new THEN CacheNew(name) ELSE CacheUpdated(name, diff)},
                  effects |-> [sync |-> sync, purge |-> purge] ]
      ELSE [insert |-> None, events |-> {CacheUnchanged(name)}, effects |-> NoEffects]

\* update_cache_if_changed: the manifest it inserts (Option), the events it
\* emits and the side effects it makes; sync and purge are the results the
\* remote sync and the CDN purge give when they are made (None: the storage
\* is local, no CloudflareClient is configured)
update_cache_if_changed(server_config, old_builder, new_builder, sync, purge) ==
  LET name == server_config.name
      diff == compute(name, old_builder, new_builder)
      is_new == old_builder = None
      new_builder_mut == IF is_new THEN build_url_map(new_builder)
                         ELSE apply_to_url_map(diff, new_builder)
  IN  IF has_changes(diff)
      THEN [ insert |-> Some(new_builder_mut),
             events |-> {IF is_new THEN CacheNew(name) ELSE CacheUpdated(name, diff)},
             effects |-> [sync |-> sync, purge |-> purge] ]
      ELSE [insert |-> None, events |-> {CacheUnchanged(name)}, effects |-> NoEffects]

\* rescan_server after the scan: update_cache_if_changed
LoopCommit ==
  /\ lpc = "commit"
  /\ LET server_config == Head(ltodo)
         name == server_config.name
         diff == compute(name, store[name], lnew[1])
         syncs == IF settings.remote
                  THEN {Some(sync_cloud_storage(diff, failed)) : failed \in SUBSET SyncTasks(diff)}
                  ELSE {None}
         purges == IF settings.cloudflare
                   THEN {Some(purge_cache(0, results)) :
                           results \in [1..MAX_RETRIES -> AttemptResults]}
                   ELSE {None}
     IN  \E u \in {update_cache_if_changed(server_config, store[name], lnew[1], sync, purge) :
                     sync \in syncs, purge \in purges} :
           /\ store' = IF u.insert = None THEN store ELSE [store EXCEPT ![name] = u.insert]
           /\ last_updated' = IF u.insert = None THEN last_updated
                              ELSE [last_updated EXCEPT ![name] = Some(Now)]
           /\ inserted' = IF u.insert = None THEN {} ELSE {[server |-> name, by |-> "loop"]}
           /\ emitted' = u.events
           /\ effects' = u.effects
  /\ settled' = [settled EXCEPT ![Head(ltodo).name] =
                   @ \/ ScanIsCurrent(config, disk, Head(ltodo).name, lnew[1])]
  /\ LoopAdvance
  /\ UNCHANGED <<cvars, settings, config, envvars, cfgSignal, paused, pathIndex, watched,
                 fsChan, pending, reloadvars, burstvars, forcevars>>

\* ------------------------------------------------------------------ reload controller
\* a comparison that leaves main_class out
changed_but_main_class(old, new) ==
  \/ old.enabled # new.enabled
  \/ old.loader # new.loader
  \/ old.loader_version # new.loader_version
  \/ old.minecraft_version # new.minecraft_version
  \/ old.java_version # new.java_version
  \/ old.enable_client # new.enable_client
  \/ old.enable_libraries # new.enable_libraries
  \/ old.enable_mods # new.enable_mods
  \/ old.enable_natives # new.enable_natives
  \/ old.enable_assets # new.enable_assets
  \/ old.game_args # new.game_args
  \/ old.jvm_args # new.jvm_args

\* ConfigWatcher::server_config_changed
server_config_changed(old, new) ==
  \/ old.enabled # new.enabled
  \/ old.loader # new.loader
  \/ old.loader_version # new.loader_version
  \/ old.minecraft_version # new.minecraft_version
  \/ old.main_class # new.main_class
  \/ old.java_version # new.java_version
  \/ old.enable_client # new.enable_client
  \/ old.enable_libraries # new.enable_libraries
  \/ old.enable_mods # new.enable_mods
  \/ old.enable_natives # new.enable_natives
  \/ old.enable_assets # new.enable_assets
  \/ old.game_args # new.game_args
  \/ old.jvm_args # new.jvm_args

\* new_servers.difference(&old_servers)
added_servers(old, new) == Names(new) \ Names(old)

\* the names of the servers of `new` that `old` has with another configuration,
\* in the order of `new`
RECURSIVE modified_servers(_, _)
modified_servers(old, new) ==
  IF new = <<>> THEN <<>>
  ELSE LET o == FindServer(old, Head(new).name)
       IN  (IF o # None /\ server_config_changed(o[1], Head(new))
            THEN <<Head(new).name>> ELSE <<>>) \o modified_servers(old, Tail(new))

\* a resume that stores the wrong value
stay_paused == paused' = TRUE

pause == paused' = TRUE
resume == paused' = FALSE

\* a change signal is received; the queued ones are drained
ReloadRecv ==
  /\ rpc = "idle"
  /\ cfgSignal
  /\ cfgSignal' = FALSE
  /\ rpc' = "debounce"
  /\ Silent
  /\ UNCHANGED <<cvars, settings, config, envvars, storevars, paused, pathIndex, loopvars,
                 fsChan, rnew, rtodo, rres, burstvars, settled, forcevars>>

\* after the debounce the file fails to load
ReloadFail ==
  /\ rpc = "debounce"
  /\ cfgSignal' = FALSE
  /\ cfgFile = None
  /\ resume
  /\ rpc' = "idle"
  /\ Silent
  /\ UNCHANGED <<cvars, settings, config, envvars, storevars, pathIndex, loopvars, fsChan,
                 rnew, rtodo, rres, burstvars, settled, forcevars>>

\* after the debounce the file loads: rescans are paused
ReloadPause ==
  /\ rpc = "debounce"
  /\ cfgSignal' = FALSE
  /\ cfgFile # None
  /\ rnew' = cfgFile
  /\ pause
  /\ rpc' = "paused"
  /\ Silent
  /\ UNCHANGED <<cvars, settings, config, envvars, storevars, pathIndex, loopvars, fsChan,
                 rtodo, rres, burstvars, settled, forcevars>>

\* the change sets are computed, the configuration swapped, the path index
\* rebuilt and rescans resumed
ReloadSwap ==
  /\ rpc = "paused"
  /\ \E added \in Perms(added_servers(config, rnew[1])) :
       rtodo' = [i \in 1..Len(modified_servers(config, rnew[1])) |->
                   [name |-> modified_servers(config, rnew[1])[i], added |-> FALSE]]
                \o [i \in 1..Len(added) |-> [name |-> added[i], added |-> TRUE]]
  /\ config' = rnew[1]
  /\ pathIndex' = rebuild(rnew[1], BasePath)
  /\ resume
  /\ rnew' = None
  /\ rpc' = IF rtodo' = <<>> THEN "idle" ELSE "force"
  /\ rold' = Some(config)
  /\ forced' = [p \in Profiles |-> 0]
  /\ settled' = [p \in Profiles |->
                   settled[p] /\ FindServer(config, p) = FindServer(rnew[1], p)]
  /\ Silent
  /\ UNCHANGED <<cvars, settings, envvars, cfgSignal, storevars, loopvars, fsChan, rres,
                 burstvars>>

ReloadAdvance ==
  /\ rtodo' = Tail(rtodo)
  /\ rpc' = IF Tail(rtodo) = <<>> THEN "idle" ELSE "force"

\* an added server that is disabled (or gone) is skipped
ReloadSkip ==
  /\ rpc = "force"
  /\ rres = None
  /\ Head(rtodo).added
  /\ LET c == FindServer(config, Head(rtodo).name)
     IN  c = None \/ ~c[1].enabled
  /\ ReloadAdvance
  /\ Silent
  /\ UNCHANGED <<cvars, settings, config, envvars, cfgSignal, storevars, paused, pathIndex,
                 loopvars, fsChan, rnew, rres, burstvars, settled, forcevars>>

\* FileSystem::ensure_server_structure
ensure_server_structure(d, name) == [d EXCEPT ![name].exists = TRUE]

\* force_rescan_server up to the end of the scan (for an added server, after
\* its directories are created)
ReloadForceScan ==
  /\ rpc = "force"
  /\ rres = None
  /\ LET h == Head(rtodo)
         c == FindServer(config, h.name)
     IN  /\ h.added => (c # None /\ c[1].enabled)
         /\ disk' = IF h.added THEN ensure_server_structure(disk, h.name) ELSE disk
         /\ IF c = None
            THEN /\ ReloadAdvance
                 /\ UNCHANGED rres
            ELSE /\ \E r \in scan_server(c[1], disk'[h.name]) :
                      rres' = Some([server_config |-> c[1], result |-> r])
                 /\ UNCHANGED <<rtodo, rpc>>
         /\ forced' = [forced EXCEPT ![h.name] = @ + 1]
  /\ Silent
  /\ UNCHANGED <<cvars, settings, config, cfgFile, cfgEdits, fsChanges, cfgSignal, storevars,
                 paused, pathIndex, loopvars, fsChan, rnew, burstvars, settled, rold>>

\* a force-rescan that stores nothing when the scan fails
ForceManifestOkOnly(server_config, result) ==
  IF result.ok THEN Some(build_url_map(result.builder)) ELSE None

\* force_rescan_server: what it stores for a scan result
ForceManifest(server_config, result) ==
  Some(IF result.ok THEN build_url_map(result.builder) ELSE EmptyBuilder(server_config))

\* force_rescan_server: the manifest is stored
ReloadForceCommit ==
  /\ rpc = "force"
  /\ rres # None
  /\ store' = [store EXCEPT ![Head(rtodo).name] =
                 ForceManifest(rres[1].server_config, rres[1].result)]
  /\ last_updated' = [last_updated EXCEPT ![Head(rtodo).name] = Some(Now)]
  /\ inserted' = {[server |-> Head(rtodo).name, by |-> "force"]}
  /\ emitted' = {}
  /\ effects' = NoEffects
  /\ settled' = [settled EXCEPT ![Head(rtodo).name] =
                   @ \/ (rres[1].result.ok
                         /\ ScanIsCurrent(config, disk, Head(rtodo).name, rres[1].result.builder))]
  /\ rres' = None
  /\ ReloadAdvance
  /\ UNCHANGED <<cvars, settings, config, envvars, cfgSignal, paused, pathIndex, loopvars,
                 fsChan, rnew, burstvars, forcevars>>

\* ------------------------------------------------------------------ the service
Next ==
  \/ EditConfig
  \/ FsWrite
  \/ FsRemove
  \/ Tick
  \/ Startup
  \/ LoopStart
  \/ IntervalTick
  \/ LoopRecv
  \/ LoopTimer
  \/ LoopScan
  \/ LoopCommit
  \/ ReloadRecv
  \/ ReloadFail
  \/ ReloadPause
  \/ ReloadSwap
  \/ ReloadSkip
  \/ ReloadForceScan
  \/ ReloadForceCommit

Spec == Init /\ [][Next]_vars

\* ------------------------------------------------------------------ the diff engine on its own
\* the service does not run while the diff engine is exercised
ServiceOff ==
  /\ settings = [cache_enabled |-> FALSE, auto_scan |-> FALSE, rescan_interval |-> 0,
                 remote |-> FALSE, cloudflare |-> FALSE]
  /\ config = <<DiffConfig>>
  /\ cfgFile = Some(config)
  /\ cfgSignal = FALSE
  /\ cfgEdits = 0
  /\ disk = StartupDisk(config, {})
  /\ fsChanges = [p \in Profiles |-> 0]
  /\ store = [p \in Profiles |-> None]
  /\ last_updated = [p \in Profiles |-> None]
  /\ paused = FALSE
  /\ pathIndex = rebuild(config, BasePath)
  /\ lpc = "init"
  /\ ltodo = <<>>
  /\ lnew = None
  /\ watched = {}
  /\ fsChan = <<>>
  /\ pending = {}
  /\ timer = None
  /\ rpc = "off"
  /\ rnew = None
  /\ rtodo = <<>>
  /\ rres = None
  /\ emitted = {}
  /\ inserted = {}
  /\ effects = NoEffects
  /\ sinceEvent = [p \in Profiles |-> DebounceTicks]
  /\ burstRescans = [p \in Profiles |-> None]
  /\ settled = [p \in Profiles |-> FALSE]
  /\ rold = None
  /\ forced = [p \in Profiles |-> 0]

svars == <<settings, config, cfgFile, cfgSignal, cfgEdits, disk, fsChanges, store,
           last_updated, paused, pathIndex, lpc, ltodo, lnew, watched, fsChan, pending,
           timer, rpc, rnew, rtodo, rres, emitted, inserted, effects, sinceEvent, burstRescans,
           settled, rold, forced>>

\* what a check that runs without the service leaves alone
notDiff == <<svars, purgevars, scanvars, indexvars, servevars, lruvars, hashvars, stopvars, warmvars, snapvars, upvars, debvars, bytesvars, racevars, failvars, lockvars>>
notPurge == <<svars, dvars, scanvars, indexvars, servevars, lruvars, hashvars, stopvars, warmvars, snapvars, upvars, debvars, bytesvars, racevars, failvars, lockvars>>
notScan == <<svars, dvars, purgevars, indexvars, servevars, lruvars, hashvars, stopvars, warmvars, snapvars, upvars, debvars, bytesvars, racevars, failvars, lockvars>>
notIndex == <<svars, dvars, purgevars, scanvars, servevars, lruvars, hashvars, stopvars, warmvars, snapvars, upvars, debvars, bytesvars, racevars, failvars, lockvars>>
notServe == <<svars, dvars, purgevars, scanvars, indexvars, lruvars, hashvars, stopvars, warmvars, snapvars, upvars, debvars, bytesvars, racevars, failvars, lockvars>>
notLru == <<svars, dvars, purgevars, scanvars, indexvars, servevars, hashvars, stopvars, warmvars, snapvars, upvars, debvars, bytesvars, racevars, failvars, lockvars>>
notHash == <<svars, dvars, purgevars, scanvars, indexvars, servevars, lruvars, stopvars, warmvars, snapvars, upvars, debvars, bytesvars, racevars, failvars, lockvars>>
notStop == <<svars, dvars, purgevars, scanvars, indexvars, servevars, lruvars, hashvars, warmvars, snapvars, upvars, debvars, bytesvars, racevars, failvars, lockvars>>
notWarm == <<svars, dvars, purgevars, scanvars, indexvars, servevars, lruvars, hashvars, stopvars, snapvars, upvars, debvars, bytesvars, racevars, failvars, lockvars>>
notSnap == <<svars, dvars, purgevars, scanvars, indexvars, servevars, lruvars, hashvars, stopvars, warmvars, upvars, debvars, bytesvars, racevars, failvars, lockvars>>
notUp == <<svars, dvars, purgevars, scanvars, indexvars, servevars, lruvars, hashvars, stopvars, warmvars, snapvars, debvars, bytesvars, racevars, failvars, lockvars>>
notDeb == <<svars, dvars, purgevars, scanvars, indexvars, servevars, lruvars, hashvars, stopvars, warmvars, snapvars, upvars, bytesvars, racevars, failvars, lockvars>>
notBytes == <<svars, dvars, purgevars, scanvars, indexvars, servevars, lruvars, hashvars, stopvars, warmvars, snapvars, upvars, debvars, racevars, failvars, lockvars>>
notRace == <<svars, dvars, purgevars, scanvars, indexvars, servevars, lruvars, hashvars, stopvars, warmvars, snapvars, upvars, debvars, bytesvars, failvars, lockvars>>
notFail == <<svars, dvars, purgevars, scanvars, indexvars, servevars, lruvars, hashvars, stopvars, warmvars, snapvars, upvars, debvars, bytesvars, racevars, lockvars>>
notLock == <<svars, dvars, purgevars, scanvars, indexvars, servevars, lruvars, hashvars, stopvars, warmvars, snapvars, upvars, debvars, bytesvars, racevars, failvars>>

DInit ==
  /\ ChecksIdle
  /\ ServiceOff

\* two scans A and B of the same profile, over any two states of its files
DiffPick ==
  /\ dpc = "pick"
  /\ \E fa \in DiskStates(AllPaths), fb \in DiskStates(AllPaths) :
       \E a \in Builders(DiffConfig, fa), b \in Builders(DiffConfig, fb) :
         /\ dA' = Some(a)
         /\ dB' = Some(b)
  /\ dpc' = "apply"
  /\ UNCHANGED <<dOut, notDiff>>

\* FileDiff::compute(A, B), applied to a builder that holds A's URL index
DiffApply ==
  /\ dpc = "apply"
  /\ dOut' = apply_to_url_map(compute(DiffConfig.name, dA, dB[1]),
                              [dB[1] EXCEPT !.url_to_path_map = dA[1].url_to_path_map]).url_to_path_map
  /\ dpc' = "done"
  /\ UNCHANGED <<dA, dB, notDiff>>

DiffNext ==
  \/ DiffPick
  \/ DiffApply

DiffSpec == DInit /\ [][DiffNext]_vars

\* C7: applying compute(A, B) to a copy of A's URL index yields exactly the
\* index build_url_map produces for B.
DiffCompleteness ==
  dpc = "done" => dOut = build_url_map(dB[1]).url_to_path_map

\* ------------------------------------------------------------------ properties of the service
\* the (url, indexed path) pairs build_url_map's rule gives for the entries of b
EntryMappings(b) ==
  (IF IsSome(b.client) THEN {<<b.client[1].url, <<"client">> \o b.client[1].path>>} ELSE {})
  \cup {<<e.url, <<"libraries">> \o e.path>> : e \in Range(b.libraries)}
  \cup {<<e.url, <<"mods">> \o e.path>> : e \in Range(b.mods)}
  \cup (IF IsSome(b.natives) THEN {<<e.url, <<"natives">> \o e.path>> : e \in Range(b.natives[1])} ELSE {})
  \cup {<<e.url, <<"assets">> \o e.path>> : e \in Range(b.assets)}

Coherent(b) ==
  /\ \A m \in EntryMappings(b) :
       m[1] # <<>> => (m[1] \in DOMAIN b.url_to_path_map /\ b.url_to_path_map[m[1]] = m[2])
  /\ DOMAIN b.url_to_path_map \subseteq {m[1] : m \in EntryMappings(b)}

\* C1: every manifest in the store maps the URL of each of its entries to
\* "<kind prefix>/<entry path>", and its URL index has no other key.
UrlIndexCoherent ==
  \A p \in Profiles : store[p] # None => Coherent(store[p][1])

\* a rescan of p by the loop has scanned and not yet committed or returned
LoopInFlight(p) == lpc = "commit" /\ Head(ltodo).name = p
\* a force-rescan of p has scanned and not yet committed
ForceInFlight(p) == rpc = "force" /\ rres # None /\ Head(rtodo).name = p

\* C2: no two rescans of one profile are in flight at the same time.
RescansSerialized ==
  \A p \in Profiles : ~(LoopInFlight(p) /\ ForceInFlight(p))

\* C3: while the orchestrator is paused, the rescan loop (interval or event
\* mode) commits nothing to the store.
PauseSafety ==
  paused => \A i \in inserted : i.by # "loop"

\* nothing is left for the loop or the reload controller to do
Quiescent ==
  /\ lpc = "idle"
  /\ fsChan = <<>>
  /\ timer = None
  /\ rpc = "idle"
  /\ ~cfgSignal

IsEnabled(servers, p) == \E i \in 1..Len(servers) : servers[i].name = p /\ servers[i].enabled

\* the file entries of a manifest, order aside
Entries(b) ==
  [ client |-> b.client,
    libraries |-> Range(b.libraries),
    mods |-> Range(b.mods),
    natives |-> IF IsSome(b.natives) THEN Range(b.natives[1]) ELSE {},
    assets |-> Range(b.assets) ]

HasEntriesOfScan(p) ==
  /\ store[p] # None
  /\ \E b \in Builders(FindServer(config, p)[1], disk[p].files) :
       Entries(store[p][1]) = Entries(b)

\* C4: in event mode, once the files of an enabled profile have changed and
\* the service has nothing left to do, the stored manifest has the entries of
\* a scan of the files as they are.
EventConvergence ==
  \A p \in Profiles :
    (EventMode /\ Quiescent /\ IsEnabled(config, p) /\ fsChanges[p] > 0 /\ disk[p].exists)
      => HasEntriesOfScan(p)

\* C5: in event mode, once a burst of events on an enabled profile has ended
\* (the debounce time has passed since its last event) and the loop has
\* nothing left to do, the loop has started exactly one rescan of the profile
\* since the burst began.
DebounceOneRescan ==
  \A p \in Profiles :
    (EventMode /\ Quiescent /\ IsEnabled(config, p) /\ burstRescans[p] # None
       /\ sinceEvent[p] >= DebounceTicks)
      => burstRescans[p] = Some(1)

\* the step in which the loop's rescan of p runs update_cache_if_changed
LoopCommitOf(p) == lpc = "commit" /\ Head(ltodo).name = p /\ lnew' = None

\* C6: when a rescan of a profile has completed, its files and config have not
\* changed since, and the loop rescans it, that rescan emits CacheUnchanged
\* and leaves the profile's entry in the store as it is.
Idempotence ==
  [][\A p \in Profiles :
       (LoopCommitOf(p) /\ settled[p] /\ ScanIsCurrent(config, disk, p, lnew[1]))
         => (emitted' = {CacheUnchanged(p)} /\ inserted' = {} /\ store'[p] = store[p])]_vars

\* ------------------------------------------------------------------ scheduling
LoopStep ==
  \/ LoopStart
  \/ IntervalTick
  \/ LoopRecv
  \/ LoopTimer
  \/ LoopScan
  \/ LoopCommit

ReloadStep ==
  \/ ReloadRecv
  \/ ReloadFail
  \/ ReloadPause
  \/ ReloadSwap
  \/ ReloadSkip
  \/ ReloadForceScan
  \/ ReloadForceCommit

\* the runtime lets main and the config watcher task make progress (nothing is
\* assumed of the rescan loop task)
FairSpec ==
  /\ Spec
  /\ WF_vars(Startup)
  /\ WF_vars(ReloadStep)

ManifestDue(p) ==
  /\ IsEnabled(config, p)
  /\ \/ settings.cache_enabled /\ settings.auto_scan
     \/ rold # None /\ ~IsEnabled(rold[1], p)

ReloadFails == rpc = "debounce" /\ cfgFile = None /\ rpc' # "debounce"

\* C9: a reload whose file does not load leaves the configuration, the path
\* index and the store as they are, starts no force-rescan, and ends with the
\* pause flag false.
FailedReloadHarmless ==
  [][ReloadFails =>
       /\ config' = config
       /\ pathIndex' = pathIndex
       /\ store' = store
       /\ last_updated' = last_updated
       /\ rpc' = "idle"
       /\ rtodo' = <<>>
       /\ forced' = forced
       /\ paused' = FALSE]_vars

\* a reload has failed and its handling has ended
ReloadFailed ==
  cfgEdits > 0 /\ cfgFile = None /\ rpc = "idle" /\ ~cfgSignal /\ ~paused

\* the profiles the claim names: added and enabled, or in both with another
\* configuration
Targets(old, new) ==
  {n \in Names(new) \ Names(old) : IsEnabled(new, n)}
  \cup {n \in Names(new) \cap Names(old) : FindServer(old, n) # FindServer(new, n)}

\* C10: a successful reload calls force-rescan once for each profile that is
\* added and enabled or modified, and for no other profile.
TargetedRescans ==
  rold # None =>
    \A p \in Profiles :
      LET due == IF p \in Targets(rold[1], config) THEN 1 ELSE 0
      IN  forced[p] <= due /\ (rpc = "idle" => forced[p] = due)

\* a reload has ended that force-rescanned one profile and skipped another
ReloadRescanned ==
  /\ rold # None
  /\ rpc = "idle"
  /\ \E p \in Profiles : forced[p] = 1
  /\ \E p \in Names(config) : forced[p] = 0

\* ------------------------------------------------------------------ C11
\* the initial scan is about to run and the scan of profile p can only fail
InitialScanFails(p) ==
  /\ lpc = "init"
  /\ settings.cache_enabled /\ settings.auto_scan
  /\ FindServer(EnabledServers(config), p) # None
  /\ scan_server(FindServer(config, p)[1], disk[p]) = {ScanErr}

\* the scan of the force-rescan in flight for profile p has failed
ForceScanFailed(p) ==
  /\ rpc = "force"
  /\ rres # None
  /\ ~rres[1].result.ok
  /\ Head(rtodo).name = p

\* C11: when the scan of a configured profile fails, the initial scan and the
\* force-rescan alike commit a manifest with empty entry lists and the
\* profile's static metadata, set last_updated and emit CacheNew for it
EmptyProfileHandling ==
  [][\A p \in Profiles :
       LET c == IF lpc = "init" THEN FindServer(config, p)[1] ELSE rres[1].server_config
       IN  ((InitialScanFails(p) /\ lpc' # "init") \/ (ForceScanFailed(p) /\ rres' = None))
             => /\ store'[p] = Some(EmptyBuilder(c))
                /\ last_updated'[p] = Some(Now)
                /\ CacheNew(p) \in emitted']_vars

\* ------------------------------------------------------------------ C20
\* CloudflareClient::purge_cache run one loop iteration at a time
PurgeCall ==
  /\ cfState = "idle"
  /\ \E name \in Profiles : cfServer' = Some(name)
  /\ cfState' = "attempt"
  /\ UNCHANGED <<cfAttempt, cfResults, cfSleeps, cfRet, notPurge>>

\* one iteration of `for attempt in 0..MAX_RETRIES`; past the range the loop
\* falls through to unreachable!()
PurgeAttempt ==
  /\ cfState = "attempt"
  /\ IF cfAttempt >= MAX_RETRIES
     THEN /\ cfState' = "unreachable"
          /\ UNCHANGED <<cfResults, cfSleeps, cfRet>>
     ELSE \E r \in AttemptResults :
            LET a == purge_attempt(cfAttempt, r)
            IN  /\ cfResults' = Append(cfResults, r)
                /\ cfRet' = a.ret
                /\ cfSleeps' = IF a.sleep = None THEN cfSleeps ELSE Append(cfSleeps, a.sleep[1])
                /\ cfState' = IF a.ret # None THEN "returned" ELSE "sleep"
  /\ UNCHANGED <<cfServer, cfAttempt, notPurge>>

\* tokio::time::sleep(backoff) is over: the next iteration
PurgeWake ==
  /\ cfState = "sleep"
  /\ cfAttempt' = cfAttempt + 1
  /\ cfState' = "attempt"
  /\ UNCHANGED <<cfServer, cfResults, cfSleeps, cfRet, notPurge>>

PurgeNext ==
  \/ PurgeCall
  \/ PurgeAttempt
  \/ PurgeWake

PurgeInit ==
  /\ ChecksIdle
  /\ ServiceOff

PurgeSpec == PurgeInit /\ [][PurgeNext]_vars /\ WF_vars(PurgeNext)

PurgeRetryShape ==
  /\ cfState # "unreachable"
  /\ Len(cfResults) <= 3
  /\ \A i \in 1..Len(cfResults) : cfResults[i] = "ok" => i = Len(cfResults)
  /\ cfSleeps = SubSeq(<<100, 200>>, 1, Len(cfSleeps))
  /\ cfState = "sleep" => Len(cfSleeps) = Len(cfResults)
  /\ cfState = "returned" =>
       \/ /\ cfRet = Some("Ok")
          /\ cfResults[Len(cfResults)] = "ok"
          /\ Len(cfSleeps) = Len(cfResults) - 1
       \/ /\ Len(cfResults) = 3
          /\ cfResults[3] # "ok"
          /\ cfRet = Some(cfResults[3])
          /\ cfSleeps = <<100, 200>>

\* C20: one purge call makes at most 3 attempts, stops at the first success,
\* waits 100 ms after the first failed attempt and 200 ms after the second,
\* returns the error of the third failed attempt without a further wait, and
\* always ends by returning Ok or Err, never in unreachable!()
PurgeRetry == [](PurgeRetryShape) /\ (cfState = "attempt" ~> cfState = "returned")

\* a purge call has returned the error of its third attempt
PurgeExhausted ==
  /\ cfState = "returned"
  /\ Len(cfResults) = 3
  /\ cfRet = Some("json")
  /\ cfResults[1] = "send"

\* ------------------------------------------------------------------ C12
\* the lifecycle events of a commit for profile p among the events evs
CommitEvents(evs, p) == {ev \in evs : ev.server = p /\ ev.event \in {"CacheNew", "CacheUpdated"}}

\* C12: a loop-driven rescan whose diff is non-empty commits the new manifest,
\* sets last_updated and emits CacheNew or CacheUpdated, whatever the results
\* of the remote upload and delete tasks and of the CDN purge
BestEffortCommit ==
  [][(lpc = "commit" /\ lpc' # "commit"
        /\ has_changes(compute(Head(ltodo).name, store[Head(ltodo).name], lnew[1])))
       => LET p == Head(ltodo).name
          IN  /\ store'[p] # None
              /\ Entries(store'[p][1]) = Entries(lnew[1])
              /\ last_updated'[p] = Some(Now)
              /\ CommitEvents(emitted', p) # {}]_vars

\* a loop rescan has committed although its remote sync and its purge failed
CommittedDespiteFailures ==
  /\ effects.sync = Some("Err")
  /\ effects.purge \in {Some(x) : x \in PurgeErrors}
  /\ \E i \in inserted : i.by = "loop"
  /\ \E ev \in emitted : ev.event = "CacheUpdated"

\* ------------------------------------------------------------------ C13
\* every content of a directory tree over `paths` in which a file may be one
\* that cannot be hashed
DiskStatesWithFailures(paths) ==
  { {IF c[f] = "unreadable" THEN Unreadable(WithSha(f, 1)) ELSE WithSha(f, 1) :
       f \in {g \in paths : c[g] # "absent"}} :
    c \in [paths -> {"absent", "readable", "unreadable"}] }

\* a profile directory, missing or with any content, is there to be scanned
ScanPick ==
  /\ scRes = None
  /\ scDir = [exists |-> FALSE, files |-> {}]
  /\ \E files \in DiskStatesWithFailures(AllPaths) :
       scDir' = [exists |-> TRUE, files |-> files]
  /\ UNCHANGED <<scRes, notScan>>

\* ServerScanner::scan_server on the directory
ScanRun ==
  /\ scRes = None
  /\ \E r \in scan_server(DiffConfig, scDir) : scRes' = Some(r)
  /\ UNCHANGED <<scDir, notScan>>

ScanNext ==
  \/ ScanPick
  \/ ScanRun

ScanInit ==
  /\ ChecksIdle
  /\ ServiceOff

ScanSpec == ScanInit /\ [][ScanNext]_vars

\* C13: a profile scan fails as a whole only when the profile directory does
\* not exist; a file that fails, in any subtree including client/, is only
\* dropped and the scan returns the entries of all the other files
ScanFailurePolicy ==
  scRes # None =>
    /\ scRes[1].ok <=> scDir.exists
    /\ scRes[1].ok => scRes[1] \in build_version_metadata(DiffConfig, Hashed(scDir.files))

\* ------------------------------------------------------------------ C14, C15
\* directories that can be registered, some nested in others, and the paths
\* find_server is asked about
IndexDirs == { <<"a">>, <<"a", "b">>, <<"a", "b", "c">>, <<"d">> }
IndexQueries ==
  IndexDirs \cup { <<"a", "b", "c", "x">>, <<"a", "x">>, <<"ab">>, <<"e", "b">> }

IndexUpdate ==
  /\ \E name \in Profiles, d \in IndexDirs : ixPaths' = update_server(ixPaths, name, d)
  /\ ixQuery' = None
  /\ ixRes' = None
  /\ UNCHANGED notIndex

IndexRemove ==
  /\ \E d \in DOMAIN ixPaths : ixPaths' = remove_server(ixPaths, d)
  /\ ixQuery' = None
  /\ ixRes' = None
  /\ UNCHANGED notIndex

IndexFind ==
  /\ \E q \in IndexQueries :
       /\ ixQuery' = Some(q)
       /\ \E r \in find_server(ixPaths, q) : ixRes' = Some(r)
  /\ UNCHANGED <<ixPaths, notIndex>>

IndexNext ==
  \/ IndexUpdate
  \/ IndexRemove
  \/ IndexFind

IndexInit ==
  /\ ChecksIdle
  /\ ServiceOff

IndexSpec == IndexInit /\ [][IndexNext]_vars

\* d is the directory p or a directory above it
IsAtOrAbove(d, p) == \E n \in 0..Len(p) : d = [i \in 1..n |-> p[i]]

\* the registered directories at or above p
RegisteredAbove(p) == {d \in DOMAIN ixPaths : IsAtOrAbove(d, p)}

\* the deepest registered directory at or above p
Deepest(p) ==
  CHOOSE d \in RegisteredAbove(p) : \A o \in RegisteredAbove(p) : Len(o) <= Len(d)

\* C14: when two registered directories, one nested under the other, both lie
\* above the path asked about, find_server returns the profile registered for
\* the deeper one, on every call
LongestPrefixRouting ==
  (/\ ixQuery # None
   /\ Cardinality(RegisteredAbove(ixQuery[1])) >= 2
   /\ Len(Deepest(ixQuery[1])) < Len(ixQuery[1]))
    => ixRes = Some(Some(ixPaths[Deepest(ixQuery[1])]))

\* C15: find_server(p) returns Some(name) only for a profile whose registered
\* directory is p or lies above p, returns Some whenever such a directory is
\* registered, and None when there is none
PrefixLookup ==
  ixQuery # None =>
    LET hits == RegisteredAbove(ixQuery[1])
        r == ixRes[1]
    IN  /\ r # None => \E d \in hits : ixPaths[d] = r[1]
        /\ hits # {} => r # None
        /\ hits = {} => r = None

\* find_server has answered for a path below a registered directory while
\* an unrelated directory is registered too
FoundBelowRegistered ==
  /\ ixQuery = Some(<<"a", "b", "c", "x">>)
  /\ DOMAIN ixPaths = {<<"a", "b", "c">>, <<"d">>}
  /\ ixRes = Some(Some(ixPaths[<<"a", "b", "c">>]))

\* ------------------------------------------------------------------ C16
\* the path parameters GET /{name}.json is asked with
ManifestRequests ==
  {<<n>> : n \in Profiles \cup {"gamma"}} \cup {<<n, "json">> : n \in Profiles \cup {"gamma"}}
    \cup {<<"alpha", "json", "json">>}

\* the HTTP server is bound after the startup
Serving == rpc # "off"

\* C16: in every reachable state, hot-reloads that removed or disabled a
\* profile included, GET /{name}.json answers 404 SERVER_NOT_FOUND when the
\* profile is missing or disabled and otherwise the manifest the Manifest
\* Store holds for it.  The handler only reads, so its answer in a state is
\* a function of that state.
ManifestEndpoint ==
  Serving =>
    \A req \in ManifestRequests :
      LET name == strip_json(req)
          resp == get_server_metadata(config, store, req)
          served == /\ Len(name) = 1
                    /\ name[1] \in Profiles
                    /\ IsEnabled(config, name[1])
                    /\ store[name[1]] # None
      IN  IF served THEN resp = [status |-> 200, body |-> store[name[1]][1]]
          ELSE resp.status = 404 /\ resp.code = "SERVER_NOT_FOUND"

\* ------------------------------------------------------------------ C17, C18
\* The file endpoint on its own: a state of the service (configuration,
\* Manifest Store, file-content cache, disk) and one request handled in it.
MaxComponentLen == 2

ServeTokens == {Dot, Backslash, Colon, Nul, "C", "alpha"}

\* the profile segments: the texts of at most MaxComponentLen tokens
ServeComponents ==
  UNION {[1..n -> ServeTokens] : n \in 0..MaxComponentLen}

\* what follows the first separator: the texts of at most two tokens, the
\* URLs of the files of the model, and texts with further separators
ServeRests ==
  {<<>>} \cup {<<t>> : t \in ServeTokens} \cup {<<t, u>> : t, u \in ServeTokens} \cup
    { <<"game", Dot, "jar">>, <<"x", Dot, "so">>, <<"game", Dot, Dot, "jar">>,
      <<"x", Slash, Dot, Dot>>, <<Slash, "x">>, <<"x", Slash, "C", Colon>> }

\* the URI paths the router hands to serve_file
ServeRequests ==
  { r \in { lead \o c : lead \in {<<Slash>>, <<Slash, Slash>>}, c \in ServeComponents }
          \cup { lead \o c \o <<Slash>> \o rest :
                   lead \in {<<Slash>>, <<Slash, Slash>>}, c \in ServeComponents,
                   rest \in ServeRests } :
      is_file_route(r) }

ServeClientJar == WithSha(DiskFile("client", <<>>, "game", "jar"), 1)
ServeNative == WithSha(DiskFile("natives", <<"linux">>, "x", "so"), 1)

\* the manifests the store can hold for alpha: none, or the result of a scan
ServeManifests ==
  {None} \cup
    { Some(b) : b \in UNION { Builders(AlphaOn, files) :
                                files \in {{}, {ServeClientJar}, {ServeClientJar, ServeNative}} } }

\* load_server_files: the key of a .jar file below the profile directory
ServeWarmKeys == { file_key(<<"alpha">>, <<"client", "game.jar">>) }

ServeDiskPaths == { ServerPath(BasePath, "alpha") \o <<"client", "game.jar">> }

ServeSetup ==
  /\ svServers = <<>>
  /\ svServers' \in {<<AlphaOn>>, <<BetaOn>>}
  /\ \E m \in ServeManifests : svCache' = [p \in Profiles |-> IF p = "alpha" THEN m ELSE None]
  /\ svLru' \in SUBSET ServeWarmKeys
  /\ svFiles' \in SUBSET ServeDiskPaths
  /\ UNCHANGED <<svReq, svOut, notServe>>

ServeArrive ==
  /\ svServers # <<>>
  /\ svReq = None
  /\ svReq' \in {Some(r) : r \in ServeRequests}
  /\ UNCHANGED <<svServers, svCache, svLru, svFiles, svOut, notServe>>

ServeHandle ==
  /\ svReq # None
  /\ svOut = None
  /\ svOut' = Some(serve_file(svReq[1], svServers, svCache, svLru, svFiles))
  /\ UNCHANGED <<svServers, svCache, svLru, svFiles, svReq, notServe>>

ServeNext == ServeSetup \/ ServeArrive \/ ServeHandle

ServeInit == ChecksIdle /\ ServiceOff

ServeSpec == ServeInit /\ [][ServeNext]_vars

\* the two parts of a file request: the profile segment and the remaining path
RequestParts(uri_path) == splitn2(trim_start_slashes(uri_path))

\* the text holds "..", a NUL byte, starts with a slash or a backslash, or has
\* ':' as its second character
Traversal(text) ==
  \/ \E i \in 1..(Len(text) - 1) : text[i] = Dot /\ text[i + 1] = Dot
  \/ \E i \in 1..Len(text) : text[i] = Nul
  \/ (text # <<>> /\ text[1] \in {Slash, Backslash})
  \/ (Len(text) >= 2 /\ IsChar(text[1]) /\ text[2] = Colon)

RequestedUrl(uri_path) == <<BaseUrl, Slash>> \o trim_start_slashes(uri_path)

\* the URL index of the manifest the store holds for the requested profile
RequestedIndex(cache, uri_path) ==
  LET parts == RequestParts(uri_path)
  IN  IF Len(parts) = 2 /\ cache_get(cache, parts[1]) # None
      THEN cache_get(cache, parts[1])[1].url_to_path_map
      ELSE EmptyMap

\* the paths that index maps the requested URL to (none or one)
IndexTargets(cache, uri_path) ==
  LET index == RequestedIndex(cache, uri_path)
  IN  {index[k] : k \in {u \in DOMAIN index : JoinText(u) = RequestedUrl(uri_path)}}

Touched(trace, what) == {trace[i].key : i \in {j \in 1..Len(trace) : trace[j].what = what}}

\* C18: the only path looked up in the file-content cache or read from disk
\* is the one the URL index of the requested profile's manifest maps the
\* requested URL to; a request whose URL is not a key of that index is
\* answered NOT_FOUND without any access to the file-content cache or the
\* disk; a hit in the file-content cache is served without touching the disk.
ServedThroughIndex ==
  svOut # None =>
    LET req == svReq[1]
        out == svOut[1]
        parts == RequestParts(req)
        targets == IndexTargets(svCache, req)
        valid == Len(parts) = 2 /\ ~Traversal(parts[1]) /\ ~Traversal(parts[2])
    IN  /\ \A key \in Touched(out.trace, "lru") :
             \E v \in targets : key = parts[1] \o <<Slash>> \o JoinText(v)
        /\ \A path \in Touched(out.trace, "disk") :
             \E v \in targets : path = <<BasePath>> \o parts[1] \o v
        /\ targets = {} =>
             /\ Touched(out.trace, "lru") = {}
             /\ Touched(out.trace, "disk") = {}
             /\ out.resp.status # 200
             /\ (valid /\ cache_get(svCache, parts[1]) # None) => out.resp = NotFound
        /\ (Touched(out.trace, "lru") \cap svLru # {}) =>
             /\ out.resp.status = 200
             /\ out.resp.from = "lru"
             /\ Touched(out.trace, "disk") = {}

\* the client jar of alpha, held by the file-content cache and absent from
\* the disk, served from the cache
ServedFromLru ==
  /\ svOut # None
  /\ svReq = Some(<<Slash, "alpha", Slash, "game", Dot, "jar">>)
  /\ svFiles = {}
  /\ svOut[1].resp = Served("lru", <<"alpha", Slash, "client", Slash, "game", Dot, "jar">>)
  /\ Touched(svOut[1].trace, "disk") = {}

\* the same file read from disk when the file-content cache does not hold it
ServedFromDisk ==
  /\ svOut # None
  /\ svReq = Some(<<Slash, "alpha", Slash, "game", Dot, "jar">>)
  /\ svLru = {}
  /\ svOut[1].resp = Served("disk", <<BasePath, "alpha", "client", "game.jar">>)


\* ------------------------------------------------------------------ C19
\* The file-content cache on its own: FileCacheManager over a moka cache.
\* The cache makes an inserted entry visible at once and lets its policy
\* decide later (when it processes the pending insert) whether the entry is
\* admitted, and which admitted entries leave to make room; weighted_size()
\* is the policy's total.
MiB == 1024 * 1024

\* data.len() of the files the warm-up loads
LruSizes == {512, 600 * MiB, 1024 * MiB, 1536 * MiB}

LruPaths == { <<"client", "game.jar">>, <<"mods", "foo.jar">>, <<"assets", "foo.jar">> }

\* FileCache::memory_usage
memory_usage(file) == file.size

\* the weigher closure; every size of the model is below 2^32 KiB, where the
\* clamp to u32 leaves kb as it is
weigher(file) == memory_usage(file) \div 1024

\* FileCacheManager::new building the cache without max_capacity whatever
\* the setting is
cache_builder_unlimited(max_capacity_gb) == None

\* FileCacheManager::new: the max_capacity of the cache it builds, in KiB
cache_builder(max_capacity_gb) ==
  IF max_capacity_gb = 0 THEN None
  ELSE LET max_capacity_kb == max_capacity_gb * 1024 * 1024 IN Some(max_capacity_kb)

RECURSIVE SumWeights(_, _)
SumWeights(map, keys) ==
  IF keys = <<>> THEN 0 ELSE map[Head(keys)] + SumWeights(map, Tail(keys))

\* Cache::weighted_size and Cache::entry_count
weighted_size(map, order) == SumWeights(map, order)
entry_count(order) == Len(order)

\* the least recently used entries that leave so that `w` more fits in `cap`
RECURSIVE Victims(_, _, _, _)
Victims(map, order, cap, w) ==
  IF order = <<>> \/ weighted_size(map, order) + w <= cap THEN <<>>
  ELSE <<Head(order)>> \o Victims(map, Tail(order), cap, w)

Without(order, keys) == SelectSeq(order, LAMBDA k : k \notin Range(keys))

RECURSIVE RemoveKeys(_, _)
RemoveKeys(map, keys) ==
  IF keys = <<>> THEN map ELSE RemoveKeys(MapRemove(map, Head(keys)), Tail(keys))

MaxCacheGb == 2

\* FileCacheManager::new
LruNew ==
  /\ lrCap = None
  /\ \E g \in 0..MaxCacheGb :
       /\ lrG' = g
       /\ lrCap' = Some(cache_builder(g))
  /\ UNCHANGED <<lrMap, lrOrder, lrPending, lrInserts, lrGot, lrStats, notLru>>

\* add_file, called by the warm-up once for every file it loaded
LruAdd ==
  /\ lrCap # None
  /\ \E path \in LruPaths, size \in LruSizes :
       LET key == file_key(<<"alpha">>, path)
           file == [size |-> size]
       IN  /\ key \notin lrInserts
           /\ lrInserts' = lrInserts \cup {key}
           /\ lrMap' = MapInsert(lrMap, key, weigher(file))
           /\ lrPending' = Append(lrPending, key)
  /\ UNCHANGED <<lrCap, lrG, lrOrder, lrGot, lrStats, notLru>>

\* the policy processes the oldest pending insert
LruMaintain ==
  /\ lrPending # <<>>
  /\ LET key == Head(lrPending)
         w == lrMap[key]
         cap == lrCap[1]
         admit == /\ lrOrder' = Append(lrOrder, key)
                  /\ lrMap' = lrMap
         reject == /\ lrOrder' = lrOrder
                   /\ lrMap' = MapRemove(lrMap, key)
     IN  IF cap = None \/ weighted_size(lrMap, lrOrder) + w <= cap[1] THEN admit
         ELSE IF w > cap[1] THEN reject
         ELSE \/ reject
              \/ LET victims == Victims(lrMap, lrOrder, cap[1], w)
                 IN  /\ lrOrder' = Append(Without(lrOrder, victims), key)
                     /\ lrMap' = RemoveKeys(lrMap, victims)
  /\ lrPending' = Tail(lrPending)
  /\ UNCHANGED <<lrCap, lrG, lrInserts, lrGot, lrStats, notLru>>

\* get_file: a hit makes the entry the most recently used one
LruGet ==
  /\ lrCap # None
  /\ \E path \in LruPaths :
       LET key == file_key(<<"alpha">>, path)
       IN  /\ lrGot' = Some(IF key \in DOMAIN lrMap THEN Some(lrMap[key]) ELSE None)
           /\ lrOrder' = IF key \in Range(lrOrder)
                         THEN Append(Without(lrOrder, <<key>>), key) ELSE lrOrder
  /\ UNCHANGED <<lrCap, lrG, lrMap, lrPending, lrInserts, lrStats, notLru>>

\* get_stats
LruStats ==
  /\ lrCap # None
  /\ lrStats' = Some([entry_count |-> entry_count(lrOrder),
                      weighted_size_kb |-> weighted_size(lrMap, lrOrder)])
  /\ UNCHANGED <<lrCap, lrG, lrMap, lrOrder, lrPending, lrInserts, lrGot, notLru>>

LruNext == LruNew \/ LruAdd \/ LruMaintain \/ LruGet \/ LruStats

LruInit == ChecksIdle /\ ServiceOff

LruSpec == LruInit /\ [][LruNext]_vars

MaxPermits == 2        \* largest hash_concurrency and batch size
MaxSubtreeFiles == 2   \* files in one sub-tree

CacheSettings ==
  [hash_concurrency : 1..MaxPermits,
   batch : [Subtrees \ {"client"} -> 1..MaxPermits]]

\* build_version_metadata starts the five scans
HashStart ==
  /\ hsCache = None
  /\ hsCache' \in {Some(c) : c \in CacheSettings}
  /\ hsWaiting' \in {w \in [Subtrees -> 0..MaxSubtreeFiles] : w["client"] <= 1}
  /\ UNCHANGED <<hsHashing, notHash>>

\* a file of one sub-tree gets a permit and its hashing starts
HashAcquire ==
  /\ hsCache # None
  /\ \E s \in Subtrees :
       /\ hsWaiting[s] > 0
       /\ hsHashing[s] < permits(hsCache[1], s)
       /\ hsWaiting' = [hsWaiting EXCEPT ![s] = @ - 1]
       /\ hsHashing' = [hsHashing EXCEPT ![s] = @ + 1]
  /\ UNCHANGED <<hsCache, notHash>>

\* compute_sha1_with_size returns and the permit is dropped
HashRelease ==
  /\ \E s \in Subtrees :
       /\ hsHashing[s] > 0
       /\ hsHashing' = [hsHashing EXCEPT ![s] = @ - 1]
  /\ UNCHANGED <<hsCache, hsWaiting, notHash>>

HashNext == HashStart \/ HashAcquire \/ HashRelease

HashInit == ChecksIdle /\ ServiceOff

HashSpec == HashInit /\ [][HashNext]_vars

RECURSIVE SumOver(_, _)
SumOver(f, S) ==
  IF S = {} THEN 0 ELSE LET x == CHOOSE y \in S : TRUE IN f[x] + SumOver(f, S \ {x})

\* C21: during the scan of one profile the files being hashed at the same
\* time, summed over all sub-trees, never exceed hash_concurrency.
ScanConcurrencyCap ==
  hsCache # None => SumOver(hsHashing, Subtrees) <= hsCache[1].hash_concurrency


\* ------------------------------------------------------------------ C22
\* The rescan task of start_auto_rescan on its own: select! over
\* run_rescan_loop() and shutdown_rx.recv().  A rescan is cut into the reads
\* of compute_sha1_with_size, each of which is an await point.
MaxRescans == 3     \* rescans the loop starts
MaxReads == 2       \* reads one rescan makes before it returns

\* start_auto_rescan spawns the task; the loop waits for its first tick
StopSpawn ==
  /\ sdTask = "none"
  /\ sdTask' = "waiting"
  /\ UNCHANGED <<sdSent, sdScan, sdResults, sdJoined, notStop>>

\* the loop starts rescan_server
StopRescan ==
  /\ sdTask = "waiting"
  /\ Len(sdResults) < MaxRescans
  /\ sdTask' = "scanning"
  /\ sdScan' = Some(0)
  /\ UNCHANGED <<sdSent, sdResults, sdJoined, notStop>>

\* file.read(&mut buffer).await of the rescan in progress
StopRead ==
  /\ sdTask = "scanning"
  /\ sdScan[1] < MaxReads
  /\ sdScan' = Some(sdScan[1] + 1)
  /\ UNCHANGED <<sdTask, sdSent, sdResults, sdJoined, notStop>>

\* rescan_server returns: the scan completed, or failed on its own
StopReturn ==
  /\ sdTask = "scanning"
  /\ \E r \in {"completed", "failed"} : sdResults' = Append(sdResults, r)
  /\ sdScan' = None
  /\ sdTask' = "waiting"
  /\ UNCHANGED <<sdSent, sdJoined, notStop>>

\* CacheManager::shutdown sends the signal
StopSignal ==
  /\ sdTask # "none"
  /\ ~sdSent
  /\ sdSent' = TRUE
  /\ UNCHANGED <<sdTask, sdScan, sdResults, sdJoined, notStop>>

\* select! takes the shutdown_rx.recv() branch: the future of
\* run_rescan_loop is dropped where it is and the task returns
StopSelect ==
  /\ sdSent
  /\ sdTask \in {"waiting", "scanning"}
  /\ sdTask' = "ended"
  /\ UNCHANGED <<sdSent, sdScan, sdResults, sdJoined, notStop>>

\* CacheManager::shutdown: handle.await returns
StopJoin ==
  /\ sdTask = "ended"
  /\ ~sdJoined
  /\ sdJoined' = TRUE
  /\ UNCHANGED <<sdTask, sdSent, sdScan, sdResults, notStop>>

StopNext ==
  StopSpawn \/ StopRescan \/ StopRead \/ StopReturn \/ StopSignal \/ StopSelect \/ StopJoin

StopInit == ChecksIdle /\ ServiceOff

StopSpec == StopInit /\ [][StopNext]_vars

\* C22: when shutdown is signalled while a loop-driven rescan is in
\* progress, the rescan task ends only after that rescan has returned: no
\* rescan is left part-way when the task has ended.
ShutdownKeepsScan == sdTask = "ended" => sdScan = None


\* ------------------------------------------------------------------ manifests are kept
\* C23: once the Manifest Store holds a manifest for a profile it holds one
\* in every later state, and every step that changes a profile's entry puts
\* a whole manifest there: no step of the service, hot-reloads that remove
\* or disable the profile included, takes an entry out.
ManifestsNeverRemoved ==
  [][\A p \in Profiles :
       (store[p] # None \/ store'[p] # store[p]) => store'[p] # None]_vars

\* a reload has taken a profile out of the configuration, or disabled it,
\* and is over; the store still holds the profile's manifest
ManifestOutlivesProfile ==
  /\ rpc = "idle"
  /\ rold # None
  /\ \E p \in Profiles : /\ IsEnabled(rold[1], p)
                         /\ ~IsEnabled(config, p)
                         /\ store[p] # None


\* ------------------------------------------------------------------ warm-up with failing profiles
\* the files a profile directory can hold at startup
WarmPaths ==
  { <<<<"client">>, "game", "jar">>,
    <<<<>>, "options", "json">>,
    <<<<"assets", "textures">>, "grass", "png">>,
    <<<<"natives", "linux">>, "x", "so">> }

WarmDisks ==
  { {WarmFile(q[1], q[2], q[3], r[q]) : q \in S} : S \in SUBSET WarmPaths, r \in [WarmPaths -> BOOLEAN] }

WarmServerLists == { <<AlphaOn, BetaOn>>, <<AlphaOn, BetaOff>>, <<BetaOn>> }

\* main calls load_all_servers: the directories, the platform and the
\* blocking tasks that will fail are fixed
WarmStart ==
  /\ wmServers = None
  /\ \E servers \in WarmServerLists : wmServers' = Some(servers)
  /\ \E d \in WarmDisks : \E e \in SUBSET {WarmFile(<<>>, "b", "jar", TRUE)} :
       wmDisk' = [p \in Profiles |-> IF p = "alpha" THEN d ELSE e]
  /\ wmSep' \in {Slash, Backslash}
  /\ wmPanics' \in SUBSET Profiles
  /\ UNCHANGED <<wmLoaded, wmInserted, wmResult, notWarm>>

\* one of the futures of join_all runs load_server_files to its end
WarmLoad ==
  /\ wmServers # None
  /\ \E p \in Names(EnabledServers(wmServers[1])) :
       /\ wmLoaded[p] = None
       /\ LET r == load_server_files(p, wmDisk[p], wmSep, p \in wmPanics)
          IN  /\ wmLoaded' = [wmLoaded EXCEPT ![p] = Some(r)]
              /\ wmInserted' = wmInserted \cup r.inserts
  /\ UNCHANGED <<wmServers, wmDisk, wmSep, wmPanics, wmResult, notWarm>>

\* join_all has every result: load_all_servers returns
WarmReturn ==
  /\ wmServers # None
  /\ wmResult = None
  /\ \A p \in Names(EnabledServers(wmServers[1])) : wmLoaded[p] # None
  /\ wmResult' = Some(load_all_servers({wmLoaded[p][1] : p \in Names(EnabledServers(wmServers[1]))}))
  /\ UNCHANGED <<wmServers, wmDisk, wmSep, wmPanics, wmLoaded, wmInserted, notWarm>>

WarmNext == WarmStart \/ WarmLoad \/ WarmReturn

WarmInit == ChecksIdle /\ ServiceOff

WarmSpec == WarmInit /\ [][WarmNext]_vars

\* the key "{profile}/{relative_path}" of a file, the relative path written
\* with forward slashes
WarmKey(p, f) ==
  <<p, Slash>> \o path_text([i \in 1..Len(f.dirs) |-> <<f.dirs[i]>>] \o << <<f.stem, Dot, f.ext>> >>, Slash)

\* C24: when load_all_servers has returned it has returned success, however
\* many enabled profiles failed to load, and for each enabled profile that
\* did not fail every file that could be read and is a .jar, a .json or
\* below assets/ has been inserted under "{profile}/{relative_path}".
PartialWarmup ==
  wmResult # None =>
    /\ wmResult = Some("Ok")
    /\ \A p \in Names(EnabledServers(wmServers[1])) :
         wmLoaded[p][1].ok =>
           \A f \in wmDisk[p] :
             (f.readable /\ (f.ext \in {"jar", "json"} \/ (f.dirs # <<>> /\ f.dirs[1] = "assets")))
               => WarmKey(p, f) \in wmInserted

\* load_all_servers has returned, one enabled profile failed, the other has
\* its three kinds of cached files inserted and a file that could not be
\* read left out
OneFailedOtherWarm ==
  /\ wmResult # None
  /\ Len(EnabledServers(wmServers[1])) = 2
  /\ ~wmLoaded["beta"][1].ok
  /\ wmLoaded["alpha"][1].ok
  /\ wmSep = Backslash
  /\ \E f \in wmDisk["alpha"] : ~f.readable /\ is_cached_kind(f)
  /\ Cardinality(wmInserted) = 2
  /\ \E f \in wmDisk["alpha"] : f.ext = "png" /\ WarmKey("alpha", f) \in wmInserted


\* ------------------------------------------------------------------ pause and the start of a rescan
\* C25: in both loop modes a rescan of a profile that the loop drives
\* begins only in a state where the pause flag is false, the second and
\* later profiles of one interval tick and the rescans at the expiry of the
\* debounce deadline included.
RescanStartsUnpaused == [][LoopScan => ~paused]_vars


\* ------------------------------------------------------------------ the order of a reload
\* C26: a successful reload pauses, swaps the configuration, rebuilds the
\* Profile-Path Index from the new configuration, resumes and only then
\* force-rescans: a step that changes the in-memory configuration or the
\* index starts with the pause flag set, leaves the index built from the
\* configuration it installs and ends with the flag cleared, and a
\* force-rescan starts only with the flag cleared.
ReloadOrdering ==
  [][/\ (config' # config \/ pathIndex' # pathIndex)
          => /\ paused
             /\ pathIndex' = rebuild(config', BasePath)
             /\ ~paused'
     /\ ReloadForceScan => ~paused /\ rold # None /\ pathIndex = rebuild(config, BasePath)]_vars

\* a reload has installed another configuration and one of its force-rescans
\* has scanned
ForceRescanAfterResume ==
  /\ rold # None
  /\ config # rold[1]
  /\ rpc = "force"
  /\ rres # None
  /\ ~paused


\* ------------------------------------------------------------------ the configuration a rescan runs with
MaxReloads == 3
MaxPassServers == 2

\* the loop is spawned
SnapSpawn ==
  /\ snPc = "off"
  /\ snPc' = "wait"
  /\ UNCHANGED <<snConfig, snSnap, snLeft, snUsed, notSnap>>

\* a tick, or the debounce deadline: the pass clones the servers and the
\* base path under one read lock
SnapPass ==
  /\ snPc = "wait"
  /\ snSnap' = Some([servers |-> snConfig.servers, base_path |-> snConfig.base_path])
  /\ snLeft' \in 1..MaxPassServers
  /\ snPc' = "next"
  /\ UNCHANGED <<snConfig, snUsed, notSnap>>

\* rescan_server is entered: it clones the batch sizes and the buffer size
\* under a read lock of its own and starts the scan with them
SnapRescan ==
  /\ snPc = "next"
  /\ snUsed' = Some([ server_config |-> snSnap[1].servers,
                      base_path |-> snSnap[1].base_path,
                      batch_config |-> snConfig.batch,
                      buffer_size |-> snConfig.checksum_buffer_size ])
  /\ snPc' = "scan"
  /\ UNCHANGED <<snConfig, snSnap, snLeft, notSnap>>

\* rescan_server returns: the next server of the pass, or the wait
SnapReturn ==
  /\ snPc = "scan"
  /\ snLeft' = snLeft - 1
  /\ IF snLeft = 1
     THEN snPc' = "wait" /\ snSnap' = None
     ELSE snPc' = "next" /\ UNCHANGED snSnap
  /\ UNCHANGED <<snConfig, snUsed, notSnap>>

\* the config watcher swaps in the configuration it has loaded
SnapReload ==
  /\ snConfig.servers < MaxReloads
  /\ snConfig' = ConfigVersion(snConfig.servers + 1)
  /\ UNCHANGED <<snPc, snSnap, snLeft, snUsed, notSnap>>

SnapNext == SnapSpawn \/ SnapPass \/ SnapRescan \/ SnapReturn \/ SnapReload

SnapInit == ChecksIdle /\ ServiceOff

SnapSpec == SnapInit /\ [][SnapNext]_vars

\* C27: the profile's configuration, the base path, the batch sizes and the
\* checksum buffer size a loop-driven rescan runs with all come from one
\* version of the configuration.
RescanUsesOneConfig ==
  snUsed # None =>
    /\ snUsed[1].base_path = snUsed[1].server_config
    /\ snUsed[1].batch_config = snUsed[1].server_config
    /\ snUsed[1].buffer_size = snUsed[1].server_config


\* ------------------------------------------------------------------ the three sets of a diff
MaxDiffFiles == 2

\* two paths of every kind the diff engine keys by identity
SetPaths ==
  { DiskFile("libraries", <<"g", "a", "1">>, "a", "jar"),
    DiskFile("libraries", <<"g", "b", "1">>, "b", "jar"),
    DiskFile("mods", <<>>, "foo", "jar"),
    DiskFile("mods", <<>>, "bar", "jar"),
    DiskFile("natives", <<"linux">>, "x", "so"),
    DiskFile("natives", <<"windows">>, "x", "so"),
    DiskFile("assets", <<>>, "foo", "jar"),
    DiskFile("assets", <<"t">>, "grass", "png") }

\* the contents of a profile directory that holds at most MaxDiffFiles files
SetDisks ==
  UNION { {{WithSha(f, c[f]) : f \in S} : c \in [S -> 1..MaxSha]} :
            S \in {T \in SUBSET SetPaths : Cardinality(T) <= MaxDiffFiles} }

\* a scan B of the profile, and the manifest of an earlier scan A or none
SetPick ==
  /\ dpc = "pick"
  /\ \E fa \in SetDisks, fb \in SetDisks :
       \E a \in Builders(DiffConfig, fa), b \in Builders(DiffConfig, fb) :
         /\ dA' \in {None, Some(a)}
         /\ dB' = Some(b)
  /\ dpc' = "compute"
  /\ UNCHANGED <<dOut, notDiff>>

\* FileDiff::compute(A, B)
SetCompute ==
  /\ dpc = "compute"
  /\ dOut' = compute(DiffConfig.name, dA, dB[1])
  /\ dpc' = "done"
  /\ UNCHANGED <<dA, dB, notDiff>>

SetNext == SetPick \/ SetCompute

SetSpec == DInit /\ [][SetNext]_vars

KeyedKinds == {"libraries", "mods", "natives", "assets"}

\* the entries of one kind in a manifest, none when there is no manifest
KindEntries(b, kind) == IF b = None THEN {} ELSE Entries(b[1])[kind]

\* identity and content hash of an entry (section 3 of the specification)
Identity(kind, entry) == IF kind \in {"libraries", "assets"} THEN entry.path ELSE <<entry.name>>
ContentHash(kind, entry) == IF kind = "assets" THEN entry.hash ELSE entry.sha1

Identities(b, kind) == {Identity(kind, x) : x \in KindEntries(b, kind)}

\* the identities of one kind a list of changes names
ChangedIds(changes, kind) ==
  LET type == CASE kind = "libraries" -> "Library" [] kind = "mods" -> "Mod"
                [] kind = "natives" -> "Native" [] OTHER -> "Asset"
  IN  { SubSeq(c.remote_key, 3, Len(c.remote_key)) :
          c \in {x \in Range(changes) : x.file_type = type} }

\* C28: for libraries, mods, natives and assets, added holds exactly the
\* identities only the new manifest has, removed exactly those only the old
\* one has, modified exactly those of both whose content hashes differ; the
\* three are pairwise disjoint and an entry with equal identity and hash is
\* in none of them.  Without an old manifest every entry of the new one is
\* in added, and modified and removed are empty.
DiffSets ==
  dpc = "done" =>
    /\ \A kind \in KeyedKinds :
         LET old == KindEntries(dA, kind)
             new == KindEntries(dB, kind)
             a == ChangedIds(dOut.added, kind)
             m == ChangedIds(dOut.modified, kind)
             r == ChangedIds(dOut.removed, kind)
         IN  /\ a = Identities(dB, kind) \ Identities(dA, kind)
             /\ r = Identities(dA, kind) \ Identities(dB, kind)
             /\ m = { Identity(kind, x) : x \in
                        {y \in new : \E z \in old : /\ Identity(kind, z) = Identity(kind, y)
                                                    /\ ContentHash(kind, z) # ContentHash(kind, y)} }
             /\ a \cap m = {} /\ a \cap r = {} /\ m \cap r = {}
             /\ \A x \in new : (\E z \in old : /\ Identity(kind, z) = Identity(kind, x)
                                               /\ ContentHash(kind, z) = ContentHash(kind, x))
                                 => Identity(kind, x) \notin a \cup m \cup r
    /\ dA = None => dOut.modified = <<>> /\ dOut.removed = <<>>

\* a diff of two manifests in which one kind has an added and a modified
\* entry and another kind a removed one
DiffHasAllThree ==
  /\ dpc = "done"
  /\ dA # None
  /\ \E kind \in KeyedKinds :
       ChangedIds(dOut.modified, kind) # {} /\ ChangedIds(dOut.added, kind) # {}
  /\ \E kind \in KeyedKinds : ChangedIds(dOut.removed, kind) # {}

\* ------------------------------------------------------------------ remote sync and commits
\* the files the profile can hold
UpPaths ==
  { DiskFile("mods", <<>>, "foo", "jar"),
    DiskFile("assets", <<"t">>, "grass", "png") }

\* the (remote key, content hash) pair of every file entry of a manifest
EntryUploads(server, b) ==
  (IF IsSome(b.client) THEN {<<<<server, "client.jar">>, b.client[1].sha1>>} ELSE {})
  \cup {<<<<server, "libraries">> \o x.path, x.sha1>> : x \in Range(b.libraries)}
  \cup {<<<<server, "mods", x.name>>, x.sha1>> : x \in Range(b.mods)}
  \cup (IF IsSome(b.natives)
        THEN {<<<<server, "natives", x.name>>, x.sha1>> : x \in Range(b.natives[1])} ELSE {})
  \cup {<<<<server, "assets">> \o x.path, x.hash>> : x \in Range(b.assets)}

\* the service starts on a profile directory
UpStart ==
  /\ upPhase = "off"
  /\ upPhase' = "init"
  /\ upRemote' \in BOOLEAN
  /\ upDisk' \in DiskStates(UpPaths)
  /\ UNCHANGED <<upStore, upUploaded, upLast, notUp>>

\* CacheManager::initialize: scan_all_servers commits what it scanned, or
\* does not run (cache.auto_scan = false)
UpInitial ==
  /\ upPhase = "init"
  /\ upPhase' = "run"
  /\ \/ \E r \in scan_server(DiffConfig, [exists |-> TRUE, files |-> upDisk]) :
          upStore' = Some(InitialManifest(DiffConfig, r))
     \/ UNCHANGED upStore
  /\ UNCHANGED <<upRemote, upDisk, upUploaded, upLast, notUp>>

\* the operator changes the files
UpWrite ==
  /\ upPhase = "run"
  /\ upDisk' \in DiskStates(UpPaths) \ {upDisk}
  /\ UNCHANGED <<upPhase, upRemote, upStore, upUploaded, upLast, notUp>>

\* rescan_server: the scan, update_cache_if_changed with its remote sync, and
\* the commit
UpLoop ==
  /\ upPhase = "run"
  /\ \E r \in scan_server(DiffConfig, [exists |-> TRUE, files |-> upDisk]) :
       /\ r.ok
       /\ LET diff == compute(DiffConfig.name, upStore, r.builder)
          IN  \E failed \in SUBSET SyncTasks(diff) :
                \E u \in {update_cache_if_changed(DiffConfig, upStore, r.builder,
                                                  IF upRemote THEN Some(sync_cloud_storage(diff, failed))
                                                  ELSE None, None)} :
                  /\ u.insert # None
                  /\ upStore' = u.insert
                  /\ IF upRemote
                     THEN LET issued == sync_operations(diff, failed)
                          IN  /\ upLast' = Some([diff |-> diff, issued |-> issued])
                              /\ upUploaded' = upUploaded \cup
                                   {e \in EntryUploads(DiffConfig.name, r.builder) :
                                      StorageOp("upload", e[1]) \in issued}
                     ELSE UNCHANGED <<upLast, upUploaded>>
  /\ UNCHANGED <<upPhase, upRemote, upDisk, notUp>>

\* force_rescan_server: the scan and the commit
UpForce ==
  /\ upPhase = "run"
  /\ \E r \in scan_server(DiffConfig, [exists |-> TRUE, files |-> upDisk]) :
       upStore' = ForceManifest(DiffConfig, r)
  /\ UNCHANGED <<upPhase, upRemote, upDisk, upUploaded, upLast, notUp>>

UpNext == UpStart \/ UpInitial \/ UpWrite \/ UpLoop \/ UpForce

UpInit == ChecksIdle /\ ServiceOff

UpSpec == UpInit /\ [][UpNext]_vars

\* C29: a rescan with a non-empty diff under remote storage issues an upload
\* for every added and every modified file and a delete for every removed
\* file, whether or not some of these tasks fail.
SyncCoversDiff ==
  upLast # None =>
    /\ \A c \in Range(upLast[1].diff.added \o upLast[1].diff.modified) :
         StorageOp("upload", c.remote_key) \in upLast[1].issued
    /\ \A c \in Range(upLast[1].diff.removed) :
         StorageOp("delete", c.remote_key) \in upLast[1].issued

\* C30: under remote storage every file entry of the manifest the store
\* holds, whichever of the initial scan, a loop rescan or a force-rescan
\* committed it, has had an upload of its content issued by then.
UploadBeforeAdvertise ==
  (upRemote /\ upStore # None) => EntryUploads(DiffConfig.name, upStore[1]) \subseteq upUploaded


\* ------------------------------------------------------------------ URLs and remote keys
\* C31: for every file the diff of two scans names, the public URL the
\* scanner put in the manifest is storage.get_url of the remote key under
\* which the rescan uploads or deletes the file.
UrlMatchesRemoteKey ==
  dpc = "done" =>
    LET diff == compute(DiffConfig.name, dA, dB[1])
    IN  \A c \in Range(diff.added \o diff.modified \o diff.removed) :
          c.url = GetUrl(c.remote_key)


\* ------------------------------------------------------------------ the weight of a cached file
\* C32: the weight of every file in the file-content cache is
\* max(1, floor(size / 1024)) for the size of a file that was loaded; so a
\* file of less than 1024 bytes weighs 1.
WeightAtLeastOne ==
  \A key \in DOMAIN lrMap :
    \E size \in LruSizes :
      lrMap[key] = (IF size \div 1024 < 1 THEN 1 ELSE size \div 1024)


\* ------------------------------------------------------------------ the watched directories
\* C33: in event mode, once the loop has installed its watches and outside
\* the pause window of a reload, the watched directories are the
\* directories of the profiles the in-memory configuration enables.
WatchSetFollowsConfig ==
  (EventMode /\ lpc \notin {"init", "start", "off"} /\ ~paused)
    => watched = {ServerPath(BasePath, n) : n \in Names(EnabledServers(config))}


\* ------------------------------------------------------------------ debouncing of config changes
MaxWrites == 3
ChannelSize == 2   \* cache.config_reload_channel_size

\* ConfigWatcher::start_watching spawns the task; the watch is installed
DebSpawn ==
  /\ dbPc = "off"
  /\ dbPc' = "recv"
  /\ UNCHANGED <<dbFile, dbWrites, dbNotify, dbChan, dbDrained, dbRead, dbNew, dbConfig, notDeb>>

\* the operator writes the config file: notify reports a Modify event
DebWrite ==
  /\ dbPc # "off"
  /\ dbWrites < MaxWrites
  /\ dbWrites' = dbWrites + 1
  /\ \E parses \in BOOLEAN : dbFile' = [version |-> dbWrites + 1, parses |-> parses]
  /\ dbNotify' = dbNotify + 1
  /\ UNCHANGED <<dbChan, dbPc, dbDrained, dbRead, dbNew, dbConfig, notDeb>>

\* the notify callback: tx.blocking_send(()) waits while the channel is full
DebSend ==
  /\ dbNotify > 0
  /\ dbChan < ChannelSize
  /\ dbNotify' = dbNotify - 1
  /\ dbChan' = dbChan + 1
  /\ UNCHANGED <<dbFile, dbWrites, dbPc, dbDrained, dbRead, dbNew, dbConfig, notDeb>>

\* rx.recv() returns a signal; the signals queued behind it are drained
DebRecv ==
  /\ dbPc = "recv"
  /\ dbChan > 0
  /\ dbChan' = 0
  /\ dbPc' = "debounce"
  /\ UNCHANGED <<dbFile, dbWrites, dbNotify, dbDrained, dbRead, dbNew, dbConfig, notDeb>>

\* the debounce sleep ends; the signals that arrived meanwhile are drained
DebDebounce ==
  /\ dbPc = "debounce"
  /\ dbDrained' = dbChan
  /\ dbChan' = 0
  /\ dbPc' = IF dbChan > 0 THEN "again" ELSE "load"
  /\ UNCHANGED <<dbFile, dbWrites, dbNotify, dbRead, dbNew, dbConfig, notDeb>>

\* drained > 0: a second sleep, then a second drain
DebAgain ==
  /\ dbPc = "again"
  /\ dbChan' = 0
  /\ dbPc' = "load"
  /\ UNCHANGED <<dbFile, dbWrites, dbNotify, dbDrained, dbRead, dbNew, dbConfig, notDeb>>

\* the file is read and parsed
DebLoad ==
  /\ dbPc = "load"
  /\ dbRead' = dbFile.version
  /\ dbNew' = from_file_no_migration(dbFile)
  /\ dbPc' = IF dbNew' = None THEN "recv" ELSE "swap"
  /\ UNCHANGED <<dbFile, dbWrites, dbNotify, dbChan, dbDrained, dbConfig, notDeb>>

\* the loaded configuration becomes the in-memory configuration
DebSwap ==
  /\ dbPc = "swap"
  /\ dbConfig' = swap_config(dbConfig, dbNew[1])
  /\ dbNew' = None
  /\ dbPc' = "recv"
  /\ UNCHANGED <<dbFile, dbWrites, dbNotify, dbChan, dbDrained, dbRead, notDeb>>

DebTask == DebRecv \/ DebDebounce \/ DebAgain \/ DebLoad \/ DebSwap

DebNext ==
  DebSpawn \/ DebWrite \/ DebSend \/ DebRecv \/ DebDebounce \/ DebAgain \/ DebLoad \/ DebSwap

DebInit == ChecksIdle /\ ServiceOff

DebSpec == DebInit /\ [][DebNext]_vars

\* the task and the notify thread are scheduled
DebFairSpec ==
  /\ DebSpec
  /\ WF_vars(DebSpawn)
  /\ WF_vars(DebSend)
  /\ WF_vars(DebTask)

\* a version of the file the task has not read is announced by a signal that
\* is still to be received, or the task is on its way to read the file
ChangeCovered ==
  dbRead # dbFile.version =>
    \/ dbNotify + dbChan > 0
    \/ dbPc \in {"debounce", "again", "load"}

\* C34: no change of the config file is lost by debouncing: a change whose
\* signal was drained is read afterwards, and once the file has stopped
\* changing with a content that parses the in-memory configuration becomes
\* that content and stays it.
NoChangeLost ==
  /\ []ChangeCovered
  /\ <>[](dbFile.parses => dbConfig = dbFile.version)

\* the last write was loaded by a reload whose debounce drained a signal
DrainedChangeLoaded ==
  /\ dbWrites = MaxWrites
  /\ dbDrained > 0
  /\ dbPc = "recv"
  /\ dbConfig = dbFile.version
  /\ dbNotify + dbChan = 0


\* ------------------------------------------------------------------ the serving path and the file-content cache
ServeFileSize == 1        \* bytes of every file the serve check has on disk
StreamingThreshold == 2   \* server.streaming_threshold_mb, in bytes

\* C35: a file request that misses the file-content cache and is served
\* from disk leaves the file in the cache when its size is at most the
\* streaming threshold, and never when it is above.
DiskServeFillsCache ==
  (svOut # None /\ svOut[1].resp \in {Served("disk", p) : p \in svFiles}) =>
    IF ServeFileSize <= StreamingThreshold
    THEN Touched(svOut[1].trace, "lru") \subseteq svLru
    ELSE Touched(svOut[1].trace, "lru") \cap svLru = {}


\* ------------------------------------------------------------------ the bytes a file request returns
\* the two files of profile alpha; each always exists, with some content
BytesPaths ==
  { DiskFile("client", <<>>, "game", "jar"),
    DiskFile("mods", <<>>, "foo", "jar") }

BytesDisks == {d \in DiskStates(BytesPaths) : Cardinality(d) = Cardinality(BytesPaths)}

BytesRequests ==
  { <<Slash, "alpha", Slash, "game", Dot, "jar">>,
    <<Slash, "alpha", Slash, "foo", Dot, "jar">> }

\* the path of a file below the profile directory
BytesRel(f) == <<f.kind>> \o RelPath(f)

\* the content hash the manifest records for the file at `path`
RecordedHash(b, path) ==
  IF IsSome(b.client) /\ <<"client">> \o b.client[1].path = path THEN Some(b.client[1].sha1)
  ELSE IF \E x \in Range(b.mods) : <<"mods">> \o x.path = path
       THEN Some((CHOOSE x \in Range(b.mods) : <<"mods">> \o x.path = path).sha1)
       ELSE None

\* CacheManager::initialize: scan_all_servers
BytesScanAll ==
  /\ byPc = "off"
  /\ byPc' = "warm"
  /\ byDisk' \in BytesDisks
  /\ \E r \in scan_server(AlphaOn, [exists |-> TRUE, files |-> byDisk']) :
       byStore' = Some(InitialManifest(AlphaOn, r))
  /\ UNCHANGED <<byLru, byOut, notBytes>>

\* CacheManager::initialize: load_all_servers reads every file into the cache
BytesWarm ==
  /\ byPc = "warm"
  /\ byPc' = "run"
  /\ byLru' =
       [k \in load_server_files("alpha",
                                {WarmFile(<<f.kind>> \o f.dirs, f.stem, f.ext, f.readable) : f \in byDisk},
                                Slash, FALSE).inserts |->
          (CHOOSE f \in byDisk :
             k \in load_server_files("alpha",
                                     {WarmFile(<<f.kind>> \o f.dirs, f.stem, f.ext, f.readable)},
                                     Slash, FALSE).inserts).sha]
  /\ UNCHANGED <<byDisk, byStore, byOut, notBytes>>

\* the operator replaces the content of a file
BytesWrite ==
  /\ byPc # "off"
  /\ byDisk' \in BytesDisks \ {byDisk}
  /\ UNCHANGED <<byPc, byStore, byLru, byOut, notBytes>>

\* a loop-driven rescan finds changes and commits
BytesRescan ==
  /\ byPc = "run"
  /\ \E r \in scan_server(AlphaOn, [exists |-> TRUE, files |-> byDisk]) :
       /\ r.ok
       /\ \E u \in {update_cache_if_changed(AlphaOn, byStore, r.builder, None, None)} :
            /\ u.insert # None
            /\ byStore' = u.insert
  /\ UNCHANGED <<byPc, byDisk, byLru, byOut, notBytes>>

\* a file request is handled: the response, the SHA-1 of the bytes it
\* carries and the hash the manifest records for the file at that moment
BytesServe ==
  /\ byPc = "run"
  /\ \E uri \in BytesRequests :
       LET out == serve_file(uri, <<AlphaOn>>,
                             [p \in Profiles |-> IF p = "alpha" THEN byStore ELSE None],
                             DOMAIN byLru,
                             {ServerPath(BasePath, "alpha") \o BytesRel(f) : f \in byDisk})
           actual == resolve_file_path(byStore[1], splitn2(trim_start_slashes(uri))[2],
                                       BaseUrl, <<"alpha">>)
       IN  /\ out.resp \in {Served("lru", k) : k \in DOMAIN byLru}
                             \cup {Served("disk", ServerPath(BasePath, "alpha") \o BytesRel(f)) : f \in byDisk}
           /\ byOut' = Some([ resp |-> out.resp,
                              sha1 |-> IF out.resp.from = "lru" THEN byLru[out.resp.path]
                                       ELSE (CHOOSE f \in byDisk :
                                               ServerPath(BasePath, "alpha") \o BytesRel(f)
                                                 = out.resp.path).sha,
                              recorded |-> RecordedHash(byStore[1], actual[1]) ])
  /\ UNCHANGED <<byPc, byDisk, byStore, byLru, notBytes>>

BytesNext == BytesScanAll \/ BytesWarm \/ BytesWrite \/ BytesRescan \/ BytesServe

BytesInit == ChecksIdle /\ ServiceOff

BytesSpec == BytesInit /\ [][BytesNext]_vars

\* C36: the SHA-1 of the bytes a file request gets from the file-content
\* cache is the content hash the profile's manifest records for the file
\* when the request is answered.
ServedBytesMatchManifest ==
  (byOut # None /\ byOut[1].resp.from = "lru") => byOut[1].recorded = Some(byOut[1].sha1)


\* ------------------------------------------------------------------ overlapping rescans of one profile
\* Every change of the files gives them a content they did not have before,
\* so a manifest is written as the number of the snapshot it was scanned from.
MaxSnapshots == 3

\* the operator changes the files of the profile
RaceWrite ==
  /\ rcDisk < MaxSnapshots
  /\ rcDisk' = rcDisk + 1
  /\ UNCHANGED <<rcStore, rcLoop, rcForce, notRace>>

\* rescan_server: scan_server_silent reads the files
RaceLoopScan ==
  /\ rcLoop = None
  /\ rcLoop' = Some(rcDisk)
  /\ UNCHANGED <<rcDisk, rcStore, rcForce, notRace>>

\* update_cache_if_changed: the diff against the manifest the store holds
\* now; the scanned manifest is stored when the diff is not empty
RaceLoopCommit ==
  /\ rcLoop # None
  /\ rcStore' = IF rcStore # rcLoop THEN rcLoop ELSE rcStore
  /\ rcLoop' = None
  /\ UNCHANGED <<rcDisk, rcForce, notRace>>

\* force_rescan_server: scan_server reads the files
RaceForceScan ==
  /\ rcForce = None
  /\ rcForce' = Some(rcDisk)
  /\ UNCHANGED <<rcDisk, rcStore, rcLoop, notRace>>

\* force_rescan_server: the scanned manifest is stored
RaceForceCommit ==
  /\ rcForce # None
  /\ rcStore' = rcForce
  /\ rcForce' = None
  /\ UNCHANGED <<rcDisk, rcLoop, notRace>>

RaceNext == RaceWrite \/ RaceLoopScan \/ RaceLoopCommit \/ RaceForceScan \/ RaceForceCommit

RaceInit == ChecksIdle /\ ServiceOff

RaceSpec == RaceInit /\ [][RaceNext]_vars

\* C37: the manifest stored for a profile is never replaced by one computed
\* from an older snapshot of the files than its own.
NoStaleOverwrite ==
  [][(rcStore # None /\ rcStore' # rcStore) => rcStore'[1] > rcStore[1]]_vars


\* ------------------------------------------------------------------ an empty diff and the stored manifest
\* paths that share an identity: the client slot, and a mod name in two
\* directories of mods/
EqPaths ==
  { DiskFile("client", <<>>, "game", "jar"),
    DiskFile("client", <<>>, "other", "jar"),
    DiskFile("mods", <<>>, "foo", "jar"),
    DiskFile("mods", <<"sub">>, "foo", "jar"),
    DiskFile("libraries", <<"g", "a", "1">>, "a", "jar") }

EqDisks ==
  UNION { {{WithSha(f, c[f]) : f \in S} : c \in [S -> 1..MaxSha]} :
            S \in {T \in SUBSET EqPaths : Cardinality(T) <= MaxDiffFiles} }

\* the manifest A the store holds and the result B of the loop's scan
EqPick ==
  /\ dpc = "pick"
  /\ \E fa \in EqDisks, fb \in EqDisks :
       \E a \in Builders(DiffConfig, fa), b \in Builders(DiffConfig, fb) :
         /\ dA' = Some(a)
         /\ dB' = Some(b)
  /\ dpc' = "update"
  /\ UNCHANGED <<dOut, notDiff>>

\* update_cache_if_changed(B) with A in the store, local storage
EqUpdate ==
  /\ dpc = "update"
  /\ LET u == update_cache_if_changed(DiffConfig, dA, dB[1], None, None)
     IN  /\ dOut' = u.events
         /\ dA' = IF u.insert = None THEN dA ELSE u.insert
  /\ dpc' = "done"
  /\ UNCHANGED <<dB, notDiff>>

EqNext == EqPick \/ EqUpdate

EqSpec == DInit /\ [][EqNext]_vars

\* C38: when a loop-driven rescan ends with CacheUnchanged, the stored
\* manifest has the same file entries as the scan result, field by field.
UnchangedMeansEqual ==
  (dpc = "done" /\ CacheUnchanged(DiffConfig.name) \in dOut) => Entries(dA[1]) = Entries(dB[1])


\* ------------------------------------------------------------------ a loop scan that fails
\* a rescan that stores the empty manifest when its scan fails, as
\* force_rescan_server does
rescan_server_or_empty(server_config, dir, old_builder) ==
  { IF r.ok
    THEN update_cache_if_changed(server_config, old_builder, r.builder, Some("Ok"), Some("Ok"))
    ELSE [insert |-> Some(EmptyBuilder(server_config)), events |-> {}, effects |-> NoEffects] :
      r \in scan_server(server_config, dir) }

\* rescan_server with remote storage and a CloudflareClient whose calls
\* succeed: what it inserts, emits and issues, for every result of the scan
rescan_server(server_config, dir, old_builder) ==
  { IF r.ok
    THEN update_cache_if_changed(server_config, old_builder, r.builder, Some("Ok"), Some("Ok"))
    ELSE [insert |-> None, events |-> {}, effects |-> NoEffects] :
      r \in scan_server(server_config, dir) }

FailPaths ==
  { DiskFile("client", <<>>, "game", "jar"),
    DiskFile("mods", <<>>, "foo", "jar"),
    DiskFile("libraries", <<"g", "a", "1">>, "a", "jar") }

\* the profile directory is removed, or its content is replaced; a file can
\* be one that cannot be hashed
FailWrite ==
  /\ flDisk' \in ({[exists |-> FALSE, files |-> {}]}
                    \cup {[exists |-> TRUE, files |-> d] : d \in DiskStatesWithFailures(FailPaths)})
  /\ flDisk' # flDisk
  /\ flOut' = None
  /\ UNCHANGED <<flStore, flUpdated, notFail>>

\* one loop-driven rescan of the profile
FailRescan ==
  /\ \E u \in rescan_server(DiffConfig, flDisk, flStore) :
       /\ flStore' = IF u.insert = None THEN flStore ELSE u.insert
       /\ flUpdated' = IF u.insert = None THEN flUpdated ELSE Some(Now)
       /\ flOut' = Some([events |-> u.events, effects |-> u.effects])
  /\ UNCHANGED <<flDisk, notFail>>

FailNext == FailWrite \/ FailRescan

FailInit == ChecksIdle /\ ServiceOff

FailSpec == FailInit /\ [][FailNext]_vars

\* the scan of the profile, as its directory is now, can only fail
ScanFails == \A r \in scan_server(DiffConfig, flDisk) : ~r.ok

\* C39: when the scan of a loop-driven rescan returns an error, the manifest
\* and the last_updated entry of the profile stay as they are, nothing is
\* uploaded, deleted or purged and no event is emitted.
FailedScanChangesNothing ==
  [][(ScanFails /\ flOut' # None)
       => /\ flStore' = flStore
          /\ flUpdated' = flUpdated
          /\ flOut' = Some([events |-> {}, effects |-> NoEffects])]_vars

\* a rescan has failed on the removed directory of a profile whose manifest
\* has files
FailedScanOfStoredProfile ==
  /\ flOut # None
  /\ ScanFails
  /\ ~flDisk.exists
  /\ flStore # None
  /\ Entries(flStore[1]) # Entries(EmptyBuilder(DiffConfig))


\* ------------------------------------------------------------------ the config lock
\* tokio::sync::RwLock<Config>: any number of read guards or one write guard;
\* acquisitions are served in the order they were made
Guard(task, mode) == [task |-> task, mode |-> mode]

\* the guards left when the task keeps the one it holds
keep_guard(holders, task) == holders

\* drop(guard), or the end of the block the guard lives in
drop(holders, task) == {h \in holders : h.task # task}

CanGrant(holders, g) ==
  IF g.mode = "read" THEN \A h \in holders : h.mode = "read" ELSE holders = {}

Granted(pc) ==
  CASE pc = "wait" -> "hold"
    [] pc = "wait_old" -> "hold_old"
    [] pc = "wait_w" -> "hold_w"
    [] pc = "wait_f" -> "hold_f"
    [] pc = "wait_again" -> "hold_again"

Waiting == {"wait", "wait_old", "wait_w", "wait_f", "wait_again"}

\* the lock hands its next guard to the oldest waiting acquisition
LockGrant ==
  /\ lkQueue # <<>>
  /\ CanGrant(lkHolders, Head(lkQueue))
  /\ lkHolders' = lkHolders \cup {Head(lkQueue)}
  /\ lkQueue' = Tail(lkQueue)
  /\ lkPc' = [lkPc EXCEPT ![Head(lkQueue).task] = Granted(@)]
  /\ UNCHANGED <<lkTodo, notLock>>

\* config.read().await of the rescan loop (the servers of a pass) or of a
\* request handler (get_server_config)
LockRead(t) ==
  /\ lkPc[t] = "idle"
  /\ lkQueue' = Append(lkQueue, Guard(t, "read"))
  /\ lkPc' = [lkPc EXCEPT ![t] = "wait"]
  /\ UNCHANGED <<lkHolders, lkTodo, notLock>>

\* the values are cloned and the block of the read guard ends
LockDrop(t) ==
  /\ lkPc[t] = "hold"
  /\ lkHolders' = drop(lkHolders, t)
  /\ lkPc' = [lkPc EXCEPT ![t] = "idle"]
  /\ UNCHANGED <<lkQueue, lkTodo, notLock>>

\* watch_config_file, a reload: the old servers are read
LockReloadRead ==
  /\ lkPc["reload"] = "idle"
  /\ lkQueue' = Append(lkQueue, Guard("reload", "read"))
  /\ lkPc' = [lkPc EXCEPT !["reload"] = "wait_old"]
  /\ UNCHANGED <<lkHolders, lkTodo, notLock>>

\* the read block ends, added and modified servers are computed, config.write().await
LockReloadWrite ==
  /\ lkPc["reload"] = "hold_old"
  /\ lkHolders' = drop(lkHolders, "reload")
  /\ lkQueue' = Append(lkQueue, Guard("reload", "write"))
  /\ lkPc' = [lkPc EXCEPT !["reload"] = "wait_w"]
  /\ UNCHANGED <<lkTodo, notLock>>

\* under the write guard: the configuration is replaced, the path index is
\* rebuilt from the data passed in, the loop is resumed
LockReloadSwap ==
  /\ lkPc["reload"] = "hold_w"
  /\ lkTodo' \in 0..Cardinality(Profiles)
  /\ lkPc' = [lkPc EXCEPT !["reload"] = "hold_again"]
  /\ UNCHANGED <<lkHolders, lkQueue, notLock>>

\* the next modified or added server: drop(config_write), then force_rescan,
\* whose first step is config.read().await; with none left, drop(config_write)
LockReloadNext ==
  /\ lkPc["reload"] = "hold_again"
  /\ lkHolders' = drop(lkHolders, "reload")
  /\ IF lkTodo > 0
     THEN /\ lkQueue' = Append(lkQueue, Guard("reload", "read"))
          /\ lkPc' = [lkPc EXCEPT !["reload"] = "wait_f"]
     ELSE /\ lkPc' = [lkPc EXCEPT !["reload"] = "idle"]
          /\ UNCHANGED lkQueue
  /\ UNCHANGED <<lkTodo, notLock>>

\* force_rescan_server: the read block ends, the server is scanned and
\* stored; back in the reload, config.write().await
LockReloadRescan ==
  /\ lkPc["reload"] = "hold_f"
  /\ lkHolders' = drop(lkHolders, "reload")
  /\ lkQueue' = Append(lkQueue, Guard("reload", "write"))
  /\ lkTodo' = lkTodo - 1
  /\ lkPc' = [lkPc EXCEPT !["reload"] = "wait_again"]
  /\ UNCHANGED notLock

LockReloadTask == LockReloadWrite \/ LockReloadSwap \/ LockReloadNext \/ LockReloadRescan

LockNext ==
  \/ LockGrant
  \/ \E t \in {"loop", "handler"} : LockRead(t)
  \/ \E t \in {"loop", "handler"} : LockDrop(t)
  \/ LockReloadRead
  \/ LockReloadWrite
  \/ LockReloadSwap
  \/ LockReloadNext
  \/ LockReloadRescan

LockInit == ChecksIdle /\ ServiceOff

LockSpec == LockInit /\ [][LockNext]_vars

\* the lock serves its queue, a task that holds a guard runs on, and a reload
\* that has started runs on
LockFairSpec ==
  /\ LockSpec
  /\ WF_vars(LockGrant)
  /\ \A t \in {"loop", "handler"} : WF_vars(LockDrop(t))
  /\ WF_vars(LockReloadTask)

\* a write guard is held alone, and the reload holds none while it waits for
\* the read guard of its force-rescan
LockSafe ==
  /\ \A g, h \in lkHolders : g.mode = "write" => g = h
  /\ lkPc["reload"] \in {"wait_f", "hold_f"} => Guard("reload", "write") \notin lkHolders

\* C40: no task waits forever for the config lock, the reload never holds the
\* write guard while it awaits an operation that takes the lock, and every
\* reload that starts releases the lock in the end.
ConfigLockNeverBlocks ==
  /\ []LockSafe
  /\ \A t \in {"loop", "handler", "reload"} : (lkPc[t] \in Waiting) ~> (lkPc[t] \notin Waiting)
  /\ (lkPc["reload"] # "idle") ~> (lkPc["reload"] = "idle" /\ drop(lkHolders, "reload") = lkHolders)

\* the reload waits to take the write guard again after a force-rescan, behind
\* a read guard of the loop, and a handler waits behind the reload
WriterQueuedBetweenReaders ==
  /\ lkPc["reload"] = "wait_again"
  /\ Guard("loop", "read") \in lkHolders
  /\ lkQueue = <<Guard("reload", "write"), Guard("handler", "read")>>

====
